---- MODULE Spec2Model ----
(***************************************************************************)
(* Verification model of the pi-supernode repository.                      *)
(*                                                                         *)
(* The repository holds several independent programs, each with its own    *)
(* entry point: the HTTP gateway with its peg-control loop                  *)
(* (tools/orchestration/dockerfile, the JavaScript part) and the Go        *)
(* services of the ecosystem protocol (ledger, issuance engine, autonomous *)
(* enforcer, converter, backup, ...).  A behaviour of the model is a run   *)
(* of ONE of these programs: Init chooses the program, and only the        *)
(* actions of that program are enabled afterwards.  The Go services share  *)
(* one shape (an Event Log, a Rule Set, goroutines that learn, a ticker),  *)
(* so the model keeps one set of variables for the service that runs.      *)
(*                                                                         *)
(* Texts are strings, and the substring and prefix tests of the code are   *)
(* computed on them with Len, SubSeq and \o, not assumed.                  *)
(***************************************************************************)
EXTENDS Integers, Sequences, FiniteSets, Bags, TLC

VARIABLES
    program,      \* which entry point of the repository is running
    \* ---- HTTP gateway (tools/orchestration/dockerfile) ----
    env,          \* the required configuration values that are present
    gwPc,         \* position of the start-up script
    listeners,    \* the ports on which a listener has been opened
    timerArmed,   \* TRUE once setInterval(monitorPriceAndAdjustSupply) ran
    ticks,        \* the executions of monitorPriceAndAdjustSupply, per slot
    \* ---- the Go service that runs, and its callers ----
    hammer,       \* the call a load generator repeats without limit
    callsLeft,    \* the other calls the callers may still make
    ret,          \* what the last call of a service operation returned
    eventLog,     \* the log of the service (sl.ledgerLog, sie.issuanceLog,
                  \* ae.rejectLog, pcc.conversionLog, qb.backupLog), as the
                  \* bag of its lines
    ruleSet,      \* rlAgent.rules of the service
    goQueue,      \* the arguments of the goroutines started by "go
                  \* rlAgent.Learn(log)" and not yet run: the log lengths,
                  \* by what Learn reads of them
    lastTick,     \* what the last firing of the service's ticker did
    \* ---- state that one service alone has ----
    entries,      \* StablecoinLedger: sl.entries
    stablecoinPool, \* StablecoinIssuanceEngine: sie.stablecoinPool
    backupFiles,  \* QuantumBackup: the files of qb.backupDir, name -> content
    clock,        \* QuantumBackup: time.Now().Unix(), from the start of the run
    fields        \* the fields of the program that runs which the variables
                  \* above do not hold, as a record (a contract's storage,
                  \* a logger's file, ...)

gwVars == <<env, gwPc, listeners, timerArmed, ticks>>
storeVars == <<entries, stablecoinPool, backupFiles, clock, fields>>

vars ==
    <<program, gwVars, hammer, callsLeft, ret, eventLog, ruleSet, goQueue,
      lastTick, storeVars>>

----------------------------------------------------------------------------
(* Bounds of the model *)

\* executions of the peg-control tick that may be in flight together
MaxTicks == 2
\* calls, other than the repeated one, that the callers of a service make
MaxCalls == 1
\* lines an Event Log may hold beyond the threshold of its ticker
Slack == 1
\* entries the ledger may hold
MaxEntries == 2
\* goroutines started by "go" that may be waiting to run
MaxGoroutines == 1
\* rules a Rule Set may gain
MaxNewRules == 1
\* times the clock may advance: seconds, blocks, windows of the limiter
MaxSeconds == 1
\* hex digits kept of a digest
HexLen == 4
\* transactions of one kind the chain may record
MaxTx == 3

----------------------------------------------------------------------------
(* Texts.  The hex rendering of a SHA3 digest is modelled by the hex        *)
(* rendering, HexLen digits long, of a weighted checksum of the hashed      *)
(* bytes: what the model keeps of "%x" is that the result is a fixed-length *)
(* string over 0-9a-f determined by the input.                              *)

\* strings.Contains
Contains(s, sub) ==
    \E i \in 1..(Len(s) - Len(sub) + 1) : SubSeq(s, i, i + Len(sub) - 1) = sub

\* strings.HasPrefix
HasPrefix(s, pre) ==
    /\ Len(s) >= Len(pre)
    /\ SubSeq(s, 1, Len(pre)) = pre

\* the code of a character
Code ==
    " " :> 1 @@ "!" :> 2 @@ "\"" :> 3 @@ "#" :> 4 @@ "$" :> 5 @@ "%" :> 6 @@
    "&" :> 7 @@ "(" :> 8 @@ ")" :> 9 @@ "*" :> 10 @@ "+" :> 11 @@
    "," :> 12 @@ "-" :> 13 @@ "." :> 14 @@ "/" :> 15 @@ "0" :> 16 @@
    "1" :> 17 @@ "2" :> 18 @@ "3" :> 19 @@ "4" :> 20 @@ "5" :> 21 @@
    "6" :> 22 @@ "7" :> 23 @@ "8" :> 24 @@ "9" :> 25 @@ ":" :> 26 @@
    ";" :> 27 @@ "<" :> 28 @@ "=" :> 29 @@ ">" :> 30 @@ "?" :> 31 @@
    "@" :> 32 @@ "A" :> 33 @@ "B" :> 34 @@ "C" :> 35 @@ "D" :> 36 @@
    "E" :> 37 @@ "F" :> 38 @@ "G" :> 39 @@ "H" :> 40 @@ "I" :> 41 @@
    "J" :> 42 @@ "K" :> 43 @@ "L" :> 44 @@ "M" :> 45 @@ "N" :> 46 @@
    "O" :> 47 @@ "P" :> 48 @@ "Q" :> 49 @@ "R" :> 50 @@ "S" :> 51 @@
    "T" :> 52 @@ "U" :> 53 @@ "V" :> 54 @@ "W" :> 55 @@ "X" :> 56 @@
    "Y" :> 57 @@ "Z" :> 58 @@ "[" :> 59 @@ "]" :> 60 @@ "^" :> 61 @@
    "_" :> 62 @@ "a" :> 63 @@ "b" :> 64 @@ "c" :> 65 @@ "d" :> 66 @@
    "e" :> 67 @@ "f" :> 68 @@ "g" :> 69 @@ "h" :> 70 @@ "i" :> 71 @@
    "j" :> 72 @@ "k" :> 73 @@ "l" :> 74 @@ "m" :> 75 @@ "n" :> 76 @@
    "o" :> 77 @@ "p" :> 78 @@ "q" :> 79 @@ "r" :> 80 @@ "s" :> 81 @@
    "t" :> 82 @@ "u" :> 83 @@ "v" :> 84 @@ "w" :> 85 @@ "x" :> 86 @@
    "y" :> 87 @@ "z" :> 88 @@ "{" :> 89 @@ "|" :> 90 @@ "}" :> 91 @@
    "~" :> 92

\* fmt.Sprintf("%x", sha3.Sum256(bytes)): HexLen digits of the sum of the
\* codes of the bytes, each weighted by its position
HexDigest(bytes) ==
    LET Weight(i) == 1 + ((i * 7919) % 251)
        RECURSIVE Pow16(_)
        Pow16(n) == IF n = 0 THEN 1 ELSE 16 * Pow16(n - 1)
        RECURSIVE WeightedSum(_, _)
        WeightedSum(lo, hi) ==
            IF lo > hi THEN 0
            ELSE IF lo = hi THEN Code[SubSeq(bytes, lo, lo)] * Weight(lo)
            ELSE LET mid == (lo + hi) \div 2
                 IN  WeightedSum(lo, mid) + WeightedSum(mid + 1, hi)
        sum == (WeightedSum(1, Len(bytes)) * 31 + 7) % Pow16(HexLen)
        Digit(i) == LET d == (sum \div Pow16(HexLen - i)) % 16
                    IN  SubSeq("0123456789abcdef", d + 1, d + 1)
        RECURSIVE Hex(_)
        Hex(i) == IF i > HexLen THEN "" ELSE Digit(i) \o Hex(i + 1)
    IN  Hex(1)

\* fmt.Sprintf("%d", n)
RECURSIVE Itoa(_)
Itoa(n) ==
    IF n < 0 THEN "-" \o Itoa(-n)
    ELSE IF n < 10 THEN SubSeq("0123456789", n + 1, n + 1)
    ELSE Itoa(n \div 10) \o Itoa(n % 10)

\* the five tokens of the volatility checks
ForbiddenTokens ==
    {"volatile", "crypto", "blockchain", "defi", "token"}

ContainsForbiddenButToken(x) ==
    \E t \in ForbiddenTokens \ {"token"} : Contains(x, t)

\* strings.Contains(x, "volatile") || ... || strings.Contains(x, "token")
ContainsForbidden(x) == \E t \in ForbiddenTokens : Contains(x, t)

\* the lines of a log that begin with one of the prefixes
CountPrefixed(log, prefixes) ==
    LET hits == {e \in BagToSet(log) : \E q \in prefixes : HasPrefix(e, q)}
        RECURSIVE Sum(_)
        Sum(S) == IF S = {} THEN 0
                  ELSE LET e == CHOOSE x \in S : TRUE
                       IN  CopiesIn(e, log) + Sum(S \ {e})
    IN  Sum(hits)

\* the answers of one model.Session.Run call: an error, or an output that
\* the caller compares with its threshold
ModelAnswers == {"err", "high", "low"}

\* what an operation returns: the results the operation does not have are
\* at their zero values ("nil" is the nil error)
Returned(op, bool, text, err) ==
    [op |-> op, bool |-> bool, text |-> text, err |-> err]

\* a call c of an operation of the service leaves the Event Log as log,
\* returns r, and has started a learning goroutine on that log if spawn.
\* The call is made when it is the repeated call or the callers still have
\* calls left, and the model has room for its effects.
Serve(c, cap, log, r, spawn) ==
    /\ BagCardinality(eventLog) < cap
    /\ c = hammer \/ callsLeft > 0
    /\ spawn => Len(goQueue) < MaxGoroutines
    /\ eventLog' = log
    /\ ret' = r
    /\ goQueue' = IF spawn THEN Append(goQueue, BagCardinality(log))
                  ELSE goQueue
    /\ callsLeft' = IF c = hammer THEN callsLeft ELSE callsLeft - 1
    /\ UNCHANGED <<program, gwVars, hammer, ruleSet, lastTick>>

\* as Serve, the log handed to the learning goroutine being kept by what
\* Learn reads of it: whether it is longer than threshold
ServeLearner(c, cap, log, r, spawn, threshold) ==
    /\ BagCardinality(eventLog) < cap
    /\ c = hammer \/ callsLeft > 0
    /\ spawn => Len(goQueue) < MaxGoroutines
    /\ eventLog' = log
    /\ ret' = r
    /\ goQueue' = IF ~spawn THEN goQueue
                  ELSE Append(goQueue, IF BagCardinality(log) > threshold
                                       THEN threshold + 1 ELSE 0)
    /\ callsLeft' = IF c = hammer THEN callsLeft ELSE callsLeft - 1
    /\ UNCHANGED <<program, gwVars, hammer, ruleSet, lastTick>>

\* a goroutine runs rlAgent.Learn(log) on the log it was started with:
\* if len(log) > threshold { rl.rules = append(rl.rules, rule) }; seed is
\* the Rule Set the service starts with
LearnStep(threshold, rule, seed) ==
    /\ goQueue # <<>>
    /\ IF Head(goQueue) > threshold
       THEN /\ Len(ruleSet) < Len(seed) + MaxNewRules
            /\ ruleSet' = Append(ruleSet, rule)
       ELSE UNCHANGED ruleSet
    /\ goQueue' = Tail(goQueue)
    /\ UNCHANGED <<program, gwVars, hammer, callsLeft, ret, eventLog, lastTick,
                   storeVars>>

----------------------------------------------------------------------------
(* HTTP gateway: start-up (tools/orchestration/dockerfile, lines 41-191)   *)

\* line 63
requiredEnvVars ==
    {"STELLAR_HORIZON_URL", "PI_COIN_ASSET_CODE", "PI_COIN_ISSUER",
     "TOKEN_CONTRACT_ADDRESS", "PRICE_FEED_ADDRESS"}

\* const port = process.env.PORT || 3000
port == 3000
\* new BroadcastSync(8080)
BroadcastPort == 8080
\* new PartnerAPI(3000, broadcastSync)
PartnerPort == 3000

MissingEnvButLast == (requiredEnvVars \ {"PRICE_FEED_ADDRESS"}) \ env

\* requiredEnvVars.forEach(... if (!process.env[varName]) throw ...)
MissingEnv == requiredEnvVars \ env

\* lines 62-68: the first statement after dotenv.config(); an uncaught throw
\* ends the script, nothing after it runs
ValidateEnv ==
    /\ program = "gateway"
    /\ gwPc = "validate"
    /\ gwPc' = IF MissingEnv # {} THEN "aborted" ELSE "construct"
    /\ UNCHANGED <<program, env, listeners, timerArmed, ticks, hammer,
                   callsLeft, ret, eventLog, ruleSet, goQueue, lastTick,
                   storeVars>>

\* new BroadcastSync(8080) and new PartnerAPI(3000, broadcastSync): each
\* constructor opens its listener
CollaboratorPorts == {BroadcastPort, PartnerPort}

\* lines 70-131: app, middleware, collaborators
Construct ==
    /\ program = "gateway"
    /\ gwPc = "construct"
    /\ listeners' = listeners \cup CollaboratorPorts
    /\ gwPc' = "timer"
    /\ UNCHANGED <<program, env, timerArmed, ticks, hammer, callsLeft, ret,
                   eventLog, ruleSet, goQueue, lastTick, storeVars>>

\* setInterval, and a call of monitorPriceAndAdjustSupply() beside it
ArmTimerAndRun ==
    /\ program = "gateway"
    /\ gwPc = "timer"
    /\ timerArmed' = TRUE
    /\ gwPc' = "listen"
    /\ ticks' = [ticks EXCEPT ![1].pc = "fetching"]
    /\ UNCHANGED <<program, env, listeners, hammer, callsLeft, ret,
                   eventLog, ruleSet, goQueue, lastTick, storeVars>>
\* line 177: setInterval(monitorPriceAndAdjustSupply, 60000).  The script
\* passes the function to the timer and does not call it.
ArmTimer ==
    /\ program = "gateway"
    /\ gwPc = "timer"
    /\ timerArmed' = TRUE
    /\ gwPc' = "listen"
    /\ UNCHANGED <<program, env, listeners, ticks, hammer, callsLeft, ret,
                   eventLog, ruleSet, goQueue, lastTick, storeVars>>

\* lines 189-191: app.listen(port)
Listen ==
    /\ program = "gateway"
    /\ gwPc = "listen"
    /\ listeners' = listeners \cup {port}
    /\ gwPc' = "running"
    /\ UNCHANGED <<program, env, timerArmed, ticks, hammer, callsLeft, ret,
                   eventLog, ruleSet, goQueue, lastTick, storeVars>>

----------------------------------------------------------------------------
(* HTTP gateway: peg-control loop.  Prices are in cents, so that the       *)
(* prices of the feed with two decimals are integers.                      *)

\* const targetPrice = 314159.00
targetPrice == 314159
\* const baseAdjustment = 1000
baseAdjustment == 1000
\* cents of one unit of price
CentsPerUnit == 100

\* the prices getLatestPrice() resolves with: the peg, one cent above and
\* below it, one percent above and below it, twice the peg, zero
Prices ==
    {31415900, 31416000, 31415899, 31730159, 31101741, 62831800, 0}

\* priceDeviation = (currentPrice - targetPrice) / targetPrice: its sign
DeviationSign(p) ==
    IF p > targetPrice * CentsPerUnit THEN 1
    ELSE IF p < targetPrice * CentsPerUnit THEN -1 ELSE 0

\* the same without Math.abs
calculateAdjustmentAmountSigned(p) ==
    ((baseAdjustment \div CentsPerUnit) * (p - targetPrice * CentsPerUnit))
        \div targetPrice

\* Math.floor(baseAdjustment * Math.abs(priceDeviation)), with
\* priceDeviation = (p - targetPrice * CentsPerUnit) / (targetPrice *
\* CentsPerUnit) for a price p in cents; the factor CentsPerUnit is cancelled
\* against baseAdjustment to keep the product within 32 bits
calculateAdjustmentAmount(p) ==
    LET d == p - targetPrice * CentsPerUnit
    IN  ((baseAdjustment \div CentsPerUnit) * (IF d < 0 THEN -d ELSE d))
            \div targetPrice

\* an execution of monitorPriceAndAdjustSupply that has not started
IdleTick == [pc |-> "idle", price |-> -1, op |-> "none", amount |-> 0,
             published |-> FALSE]

\* 60,000 ms have passed since setInterval or since the timer last fired:
\* the timer fires, monitorPriceAndAdjustSupply starts and runs to its first
\* await, oracleIntegration.getLatestPrice()
TimerFire(i) ==
    /\ program = "gateway"
    /\ gwPc = "running"
    /\ timerArmed
    /\ ticks[i].pc = "idle"
    /\ ticks' = [ticks EXCEPT ![i] = [IdleTick EXCEPT !.pc = "fetching"]]
    /\ UNCHANGED <<program, env, gwPc, listeners, timerArmed, hammer,
                   callsLeft, ret, eventLog, ruleSet, goQueue, lastTick,
                   storeVars>>

\* getLatestPrice() resolves with p: lines 141-158, and lines 160-164 when
\* no supply call is awaited
PriceResolved(i, p) ==
    /\ program = "gateway"
    /\ ticks[i].pc = "fetching"
    /\ LET adj == calculateAdjustmentAmount(p)
           dev == DeviationSign(p)
       IN  ticks' = [ticks EXCEPT ![i] =
              IF dev > 0
              THEN [pc |-> "adjusting", price |-> p, op |-> "burn",
                    amount |-> adj, published |-> FALSE]
              ELSE IF dev < 0
              THEN [pc |-> "adjusting", price |-> p, op |-> "mint",
                    amount |-> adj, published |-> FALSE]
              ELSE [pc |-> "idle", price |-> p, op |-> "none",
                    amount |-> adj, published |-> TRUE]]
    /\ UNCHANGED <<program, env, gwPc, listeners, timerArmed, hammer,
                   callsLeft, ret, eventLog, ruleSet, goQueue, lastTick,
                   storeVars>>

\* the rejection is not caught: the process ends
PriceRejectedUncaught(i) ==
    /\ program = "gateway"
    /\ ticks[i].pc = "fetching"
    /\ ticks' = [ticks EXCEPT ![i] = [IdleTick EXCEPT !.op = "failed"]]
    /\ gwPc' = "aborted"
    /\ UNCHANGED <<program, env, listeners, timerArmed, hammer,
                   callsLeft, ret, eventLog, ruleSet, goQueue, lastTick,
                   storeVars>>
\* getLatestPrice() rejects: the catch block logs, the tick ends
PriceRejected(i) ==
    /\ program = "gateway"
    /\ ticks[i].pc = "fetching"
    /\ ticks' = [ticks EXCEPT ![i] = [IdleTick EXCEPT !.op = "failed"]]
    /\ UNCHANGED <<program, env, gwPc, listeners, timerArmed, hammer,
                   callsLeft, ret, eventLog, ruleSet, goQueue, lastTick,
                   storeVars>>

\* burnTokens / mintTokens resolves: lines 160-164 run
SupplyResolved(i) ==
    /\ program = "gateway"
    /\ ticks[i].pc = "adjusting"
    /\ ticks' = [ticks EXCEPT ![i].pc = "idle", ![i].published = TRUE]
    /\ UNCHANGED <<program, env, gwPc, listeners, timerArmed, hammer,
                   callsLeft, ret, eventLog, ruleSet, goQueue, lastTick,
                   storeVars>>

\* lines 160-164 run although the supply call has rejected
SupplyRejectedPublishing(i) ==
    /\ program = "gateway"
    /\ ticks[i].pc = "adjusting"
    /\ ticks' = [ticks EXCEPT ![i].pc = "idle", ![i].published = TRUE]
    /\ UNCHANGED <<program, env, gwPc, listeners, timerArmed, hammer,
                   callsLeft, ret, eventLog, ruleSet, goQueue, lastTick,
                   storeVars>>
\* burnTokens / mintTokens rejects: the catch block logs, lines 160-164 are
\* skipped
SupplyRejected(i) ==
    /\ program = "gateway"
    /\ ticks[i].pc = "adjusting"
    /\ ticks' = [ticks EXCEPT ![i].pc = "idle"]
    /\ UNCHANGED <<program, env, gwPc, listeners, timerArmed, hammer,
                   callsLeft, ret, eventLog, ruleSet, goQueue, lastTick,
                   storeVars>>

----------------------------------------------------------------------------
(* Properties of the HTTP gateway                                          *)

\* C1: in every tick whose price fetch returned p (in cents, peg 31415900),
\* the amount a is floor(1000 * |p - peg| / peg), burn(a) was called exactly
\* when p is above the peg, mint(a) exactly when p is below it, and neither
\* when p is the peg; 317301.59 gives burn 10 and 311017.41 gives mint 10.
C1_PegAdjustment ==
    \A i \in 1..MaxTicks :
        ticks[i].price >= 0 =>
            LET p == ticks[i].price
                a == ticks[i].amount
                d == IF p >= 31415900 THEN p - 31415900 ELSE 31415900 - p
            IN  /\ a >= 0
                /\ a * 314159 <= 10 * d
                /\ 10 * d < (a + 1) * 314159
                /\ (ticks[i].op = "burn") <=> (p > 31415900)
                /\ (ticks[i].op = "mint") <=> (p < 31415900)
                /\ (ticks[i].op = "none") <=> (p = 31415900)
                /\ (p = 31730159) => (ticks[i].op = "burn" /\ a = 10)
                /\ (p = 31101741) => (ticks[i].op = "mint" /\ a = 10)

\* two ticks have run to their decision: one burnt 10, the other minted 10
\* or found the price at the peg
C1_Witness ==
    /\ \E i \in 1..MaxTicks :
          ticks[i].price = 31730159 /\ ticks[i].op = "burn"
    /\ \E i \in 1..MaxTicks :
          ticks[i].price \in {31101741, 31415900}
              /\ ticks[i].op \in {"mint", "none"}

\* C2: while one of the five required values is absent, no listener is open
\* (8080, 3000, the gateway port), the timer is not armed, and the script is
\* at its validation or has aborted there.
C2_AbortBeforeListening ==
    (\E v \in {"STELLAR_HORIZON_URL", "PI_COIN_ASSET_CODE", "PI_COIN_ISSUER",
                "TOKEN_CONTRACT_ADDRESS", "PRICE_FEED_ADDRESS"} : v \notin env)
        => /\ listeners = {}
           /\ ~timerArmed
           /\ gwPc \in {"validate", "aborted"}
           /\ \A i \in 1..MaxTicks : ticks[i].pc = "idle"

\* the start-up has aborted with exactly one value absent
C2_Witness ==
    /\ gwPc = "aborted"
    /\ Cardinality(env) = 4


\* C15 as claimed: once the start-up script has run to its end, the first
\* tick has begun, no interval of 60,000 ms having passed yet.
C15_FirstTickAtStart ==
    (program = "gateway" /\ gwPc = "running")
        => \E i \in 1..MaxTicks : ticks[i] # IdleTick

\* C15 amended: a tick begins only when the timer fires, 60,000 ms after
\* setInterval or after the last firing, with the start-up script at its end
\* and the timer armed; a firing begins exactly one tick.  No tick begins
\* at process start.
C15_FirstTickAfterInterval ==
    [][\A i \in 1..MaxTicks :
          (ticks[i].pc # "fetching" /\ ticks'[i].pc = "fetching")
          => /\ gwPc = "running"
             /\ timerArmed
             /\ TimerFire(i)
             /\ \A j \in 1..MaxTicks \ {i} : ticks'[j] = ticks[j]]_vars

\* the timer has fired for the first time: one tick waits for the price,
\* no other has begun
C15_Witness ==
    /\ program = "gateway"
    /\ gwPc = "running"
    /\ ticks[1].pc = "fetching"
    /\ \A j \in 2..MaxTicks : ticks[j] = IdleTick

\* C16: a step in which the price fetch or the supply call of a tick
\* rejects ends that tick and leaves the timer armed and the process
\* running, so that the timer can fire for it again; that step begins no
\* fetch, and a fetch begins only when the timer fires.
C16_FailedTickIsContained ==
    [][\A i \in 1..MaxTicks :
          /\ (PriceRejected(i) \/ SupplyRejected(i))
             => /\ timerArmed'
                /\ gwPc' = "running"
                /\ ticks'[i].pc = "idle"
                /\ \A j \in 1..MaxTicks : ticks'[j].pc # "fetching"
                                            \/ ticks[j].pc = "fetching"
          /\ (timerArmed => timerArmed')
          /\ (gwPc = "running" => gwPc' = "running")]_vars

\* a tick has failed at its price fetch and the timer has fired again
\* while another tick, failed at its supply call, has ended
C16_Witness ==
    /\ program = "gateway"
    /\ gwPc = "running"
    /\ timerArmed
    /\ ticks[1].pc = "fetching"
    /\ ticks[2].pc = "idle"
    /\ ticks[2].op \in {"burn", "mint"}
    /\ ~ticks[2].published

C18_PositiveAmount ==
    \A i \in 1..MaxTicks :
        ticks[i].op \in {"burn", "mint"} => ticks[i].amount >= 1

\* C18 amended: every burn or mint call passes a whole amount of at least
\* 0, and the amount is 0 exactly when the price is off the peg by less
\* than a thousandth of it (d in cents: 1000 * d < 31415900).
C18_NonNegativeAmount ==
    \A i \in 1..MaxTicks :
        ticks[i].op \in {"burn", "mint"}
        => LET p == ticks[i].price
               d == IF p >= 31415900 THEN p - 31415900 ELSE 31415900 - p
           IN  /\ ticks[i].amount \in Nat
               /\ d > 0
               /\ (ticks[i].amount = 0) <=> (10 * d < 314159)

\* a burn of 0 for a price one cent above the peg, and a mint of 1000 for
\* a price of 0
C18_Witness ==
    /\ ticks[1].op = "burn" /\ ticks[1].price = 31416000
                            /\ ticks[1].amount = 0
    /\ ticks[2].op = "mint" /\ ticks[2].price = 0 /\ ticks[2].amount = 1000
----------------------------------------------------------------------------
(* The HTTP side of the gateway once it listens (dockerfile, lines         *)
(* 110-131 and 180): the requests and the rate limiter.  It shares no      *)
(* state with the peg-control loop, and is run as the program "api".       *)
(* apiLimiter is express-rate-limit with its memory store: one counter per *)
(* caller, incremented by every request that reaches the limiter, all      *)
(* counters dropped when the window ends.  fields.hits is the counters,    *)
(* fields.window the number of windows that have ended.                    *)

\* max: 100
apiMax == 100

ApiCallers == {"10.0.0.1", "10.0.0.2"}

NewApiLimiter == [hits |-> [a \in ApiCallers |-> 0], window |-> 0]

\* a request: the address of the caller and the path
ApiCalls ==
    UNION {{[caller |-> a, path |-> p] : a \in ApiCallers}
             : p \in {"/api/price", "/api", "/health", "/apiv2"}}

\* app.use('/api/', apiLimiter): the paths the limiter is mounted on, the
\* prefix taken by whole segments
UnderApi(path) == path = "/api" \/ HasPrefix(path, "/api/")

OverLimitAt(n) == n >= apiMax
\* the limiter rejects a request when the count, this request included, is
\* above max
OverLimit(n) == n > apiMax

\* a request arrives
Request(c) ==
    /\ program = "api"
    /\ c = hammer \/ callsLeft > 0
    /\ callsLeft' = IF c = hammer THEN callsLeft ELSE callsLeft - 1
    /\ IF UnderApi(c.path)
       THEN LET n == fields.hits[c.caller] + 1
            IN  /\ n <= apiMax + Slack
                /\ fields' = [fields EXCEPT !.hits[c.caller] = n]
                /\ ret' = IF OverLimit(n)
                          THEN Returned(c.path, FALSE, "429", "nil")
                          ELSE Returned(c.path, TRUE, "next", "nil")
       ELSE /\ ret' = Returned(c.path, TRUE, "next", "nil")
            /\ UNCHANGED fields
    /\ UNCHANGED <<program, gwVars, hammer, eventLog, ruleSet, goQueue,
                   lastTick, entries, stablecoinPool, backupFiles, clock>>

\* windowMs: 15 * 60 * 1000 have passed since the window began
WindowEnds ==
    /\ program = "api"
    /\ fields.window < MaxSeconds
    /\ fields' = [hits |-> [a \in ApiCallers |-> 0],
                  window |-> fields.window + 1]
    /\ UNCHANGED <<program, gwVars, hammer, callsLeft, ret, eventLog, ruleSet,
                   goQueue, lastTick, entries, stablecoinPool, backupFiles,
                   clock>>

\* C14: a request under /api is let through exactly when it is among the
\* first 100 requests of its caller under /api since the window began, so
\* the 101st is rejected; the end of a window leaves every caller with no
\* request counted; a request outside /api is always let through and is
\* not counted.
C14_RateLimit ==
    [][(program = "api") =>
         /\ \A c \in ApiCalls :
               Request(c)
               => IF c.path \in {"/api/price", "/api"}
                  THEN /\ ret'.bool <=> fields.hits[c.caller] < 100
                       /\ fields'.hits[c.caller] = fields.hits[c.caller] + 1
                       /\ \A a \in ApiCallers \ {c.caller} :
                             fields'.hits[a] = fields.hits[a]
                  ELSE ret'.bool /\ fields' = fields
         /\ WindowEnds => \A a \in ApiCallers : fields'.hits[a] = 0]_vars

\* in the second window a caller has made 101 requests under /api and the
\* last one has been rejected
C14_Witness ==
    /\ program = "api"
    /\ fields.window = 1
    /\ fields.hits["10.0.0.1"] = 101
    /\ ret = Returned("/api/price", FALSE, "429", "nil")

----------------------------------------------------------------------------
(* StablecoinLedger (unnamed/part_006)                                     *)

\* if inconsistencies > 10
auditThreshold == 10
\* if len(logs) > 40
adjustThreshold == 40

\* rules: []string{"validate with AI", "hash with quantum"}
NewLedgerRLAgent == <<"validate with AI", "hash with quantum">>

\* a call of AddEntry: its argument and the answer the model gives if asked
LedgerCalls ==
    [data : {"stablecoin tx: USDC 100",
             "volatile tx",
             "crypto tx",
             "blockchain entry",
             "defi yield",
             "token swap"},
     model : ModelAnswers]

validateEntryUnreported(c) == [err |-> FALSE, valid |-> c.model = "high"]

\* validateEntry: output > 0.5, or the error of Session.Run
validateEntry(c) == [err |-> c.model = "err", valid |-> c.model = "high"]

\* sl.quantumHash(data); the key is the digest of "ledger-hyper-key"
ledgerQuantumHash(data) == HexDigest(data \o "ledger-hyper-key")

EntryIDZeroBased(n) == "entry_" \o Itoa(n - 1)

\* fmt.Sprintf("entry_%d", len(sl.entries)+1)
EntryID(n) == "entry_" \o Itoa(n)

\* the test of line 60 and the hash of line 77, computed once for each data
\* of the model
LedgerText ==
    [d \in {c.data : c \in LedgerCalls} |->
        [forbidden |-> ContainsForbidden(d), hash |-> ledgerQuantumHash(d)]]

\* AddEntry, lines 55-92, under sl.mu; "go sl.rlAgent.AdjustLedger(
\* sl.ledgerLog)" hands the goroutine the log as it is at that statement.
\* The log of the model has room for the line of an added entry beside the
\* rejections that make SelfAudit reset it.
AddEntry(c) ==
    /\ program = "ledger"
    /\ LET Result(e) == Returned("AddEntry", FALSE, "", e)
           Logged(line) == eventLog (+) SetToBag({line \o c.data})
           v == validateEntry(c)
           valid == IF v.err THEN TRUE ELSE v.valid
           cap == auditThreshold + Slack + 1
       IN  IF LedgerText[c.data].forbidden
           THEN /\ Serve(c, cap, Logged("rejected: "),
                         Result("rejected: volatile data not added to ledger"),
                         FALSE)
                /\ UNCHANGED entries
           ELSE IF ~valid
           THEN /\ Serve(c, cap, Logged("invalid: "),
                         Result("invalid entry, not added"), FALSE)
                /\ UNCHANGED entries
           ELSE /\ Len(entries) < MaxEntries
                /\ entries' = Append(entries,
                       [ID |-> EntryID(Len(entries) + 1), Data |-> c.data,
                        Hash |-> LedgerText[c.data].hash])
                /\ ServeLearner(c, cap, Logged("added: "), Result("nil"),
                                TRUE, adjustThreshold)
    /\ UNCHANGED <<stablecoinPool, backupFiles, clock, fields>>

\* LedgerRLAgent.AdjustLedger(logs), run by a goroutine
AdjustLedger ==
    /\ program = "ledger"
    /\ LearnStep(adjustThreshold, "increase validation threshold",
                 NewLedgerRLAgent)

AuditFiresAtThreshold(n) == n >= auditThreshold

\* if inconsistencies > 10
AuditFires(n) == n > auditThreshold

SelfAuditTruncating ==
    /\ program = "ledger"
    /\ CountPrefixed(eventLog, {"rejected", "invalid"}) > auditThreshold
    /\ eventLog' = EmptyBag
    /\ lastTick' = "evolved"
    /\ entries' = <<>>
    /\ UNCHANGED <<program, gwVars, hammer, callsLeft, ret, ruleSet, goQueue,
                   stablecoinPool, backupFiles, clock, fields>>

\* SelfAudit, lines 118-137: the ticker fires, the loop body counts the lines
\* that begin with "rejected" or "invalid" and compares the count.
\* rlAgent.EvolveLedger(), lines 156-158, is log.Println of the rules: it
\* assigns nothing.
SelfAudit ==
    /\ program = "ledger"
    /\ LET inconsistencies ==
               CountPrefixed(eventLog, {"rejected", "invalid"})
       IN  IF AuditFires(inconsistencies)
           THEN /\ eventLog' = EmptyBag
                /\ lastTick' = "evolved"
           ELSE /\ UNCHANGED eventLog
                /\ lastTick' = "kept"
    /\ UNCHANGED <<program, gwVars, hammer, callsLeft, ret, ruleSet, goQueue,
                   storeVars>>

----------------------------------------------------------------------------
(* Properties of the ledger                                                *)

\* strconv.Atoi of a decimal rendering
RECURSIVE Atoi(_)
Atoi(ds) ==
    IF ds = "" THEN 0
    ELSE 10 * Atoi(SubSeq(ds, 1, Len(ds) - 1))
         + ((CHOOSE k \in 1..10 :
                SubSeq("0123456789", k, k) = SubSeq(ds, Len(ds), Len(ds))) - 1)

\* C7: a step of AddEntry whose data contains one of volatile, crypto,
\* blockchain, defi, token returns an error, leaves the entry list as it
\* was, and adds exactly one line, "rejected: " followed by the data, to the
\* Event Log.
C7_ForbiddenRejected ==
    [][\A c \in LedgerCalls :
          (AddEntry(c)
             /\ \E t \in {"volatile", "crypto", "blockchain", "defi",
                          "token"} : Contains(c.data, t))
          => /\ ret'.err # "nil"
             /\ entries' = entries
             /\ BagCardinality(eventLog') = BagCardinality(eventLog) + 1
             /\ eventLog' = eventLog (+) SetToBag({"rejected: " \o c.data})
             /\ HasPrefix("rejected: " \o c.data, "rejected:")]_vars

\* a rejected call has returned and its line is in the log, with entries
\* accepted before it
C7_Witness ==
    /\ program = "ledger"
    /\ ret.err = "rejected: volatile data not added to ledger"
    /\ Len(entries) >= 1
    /\ \E c \in LedgerCalls : BagIn("rejected: " \o c.data, eventLog)

\* C8: the i-th entry of the list has the ID "entry_" followed by the
\* decimal rendering of i, in every state of the ledger.
C8_SequentialIDs ==
    \A i \in 1..Len(entries) :
        /\ HasPrefix(entries[i].ID, "entry_")
        /\ Atoi(SubSeq(entries[i].ID, 7, Len(entries[i].ID))) = i

\* several entries accepted, with rejected calls and an audit tick between
C8_Witness ==
    /\ program = "ledger"
    /\ Len(entries) >= 2
    /\ CountPrefixed(eventLog, {"rejected", "invalid"}) >= 1
    /\ lastTick = "kept"

----------------------------------------------------------------------------
(* StablecoinIssuanceEngine (unnamed/part_008, lines 1-183)                *)

\* stablecoinPool: map[string]int{"USDC": 1000, "USDT": 1000}
PoolSeed == 1000
\* if len(sie.issuanceLog) < 10
optimizeThreshold == 10
\* if len(log) > 20
issuanceLearnThreshold == 20
\* rand.Intn(100) + 1
FallbackMax == 100

NewPool == [t \in {"USDC", "USDT"} |-> PoolSeed]

\* rules: []string{"issue stablecoin only", "predict amount via AI"}
NewIssuanceRLAgent == <<"issue stablecoin only", "predict amount via AI">>

\* a call of IssueStablecoin: the request, whether Session.Run fails, and
\* the amount that results: int(output * 100) of predictAmount (negative,
\* zero, within the seed, above the seed) or rand.Intn(100) + 1 of the
\* fallback (both ends of its range).  For a request that is refused before
\* the amount is read, one amount stands for all.
IssuanceCalls ==
    LET refused == {"issue volatile crypto 100",
                    "issue stablecoin USDC on blockchain",
                    "issue stablecoin 10"}
        served == {"issue stablecoin USDC 50",
                   "issue stablecoin USDT 20",
                   "issue stablecoin USDT or USDC"}
    IN  {[request |-> r, model |-> "err", amount |-> FallbackMax] :
            r \in refused}
        \cup {[request |-> r, model |-> "err", amount |-> a] :
                 r \in served, a \in {1, FallbackMax}}
        \cup {[request |-> r, model |-> "ok", amount |-> a] :
                 r \in served, a \in {-5, 0, 400, PoolSeed + 1}}
        \cup {[request |-> "issue stablecoin USDT or USDC", model |-> "ok",
                amount |-> 250]}

\* oracleValidate, lines 114-117
oracleValidate(request) ==
    /\ Contains(request, "stablecoin")
    /\ ~Contains(request, "volatile")
    /\ ~Contains(request, "crypto")
    /\ ~Contains(request, "blockchain")

extractStablecoinTypeLastMatch(request) ==
    IF Contains(request, "USDT") THEN "USDT"
    ELSE IF Contains(request, "USDC") THEN "USDC"
    ELSE ""

\* extractStablecoinType, lines 120-127
extractStablecoinType(request) ==
    IF Contains(request, "USDC") THEN "USDC"
    ELSE IF Contains(request, "USDT") THEN "USDT"
    ELSE ""

InsufficientSeed(pool, type, amount) == NewPool[type] < amount

\* line 77: if sie.stablecoinPool[stablecoinType] < amount
InsufficientPool(pool, type, amount) == pool[type] < amount

\* the tests and texts of lines 59-90, computed once for each call of the
\* model
IssuanceText ==
    [c \in IssuanceCalls |->
        LET type == extractStablecoinType(c.request)
            \* fmt.Sprintf("%s:%d:%s", stablecoinType, amount, quantumKey)
            issuanceData == type \o ":" \o Itoa(c.amount) \o ":"
                            \o "issuance-hyper-key"
            \* fmt.Sprintf("Issued %d %s", amount, stablecoinType)
            issued == "Issued " \o Itoa(c.amount) \o " " \o type
        IN  [valid |-> oracleValidate(c.request),
             type |-> type,
             issued |-> issued,
             \* fmt.Sprintf("Issued %d %s (ID: %s)", amount, type, issuanceID)
             confirmation |-> issued \o " (ID: " \o HexDigest(issuanceData)
                              \o ")"]]

\* IssueStablecoin, lines 53-94, under sie.mu
IssueStablecoin(c) ==
    /\ program = "issuance"
    /\ LET t == IssuanceText[c]
           type == t.type
           Result(text, e) == Returned("IssueStablecoin", FALSE, text, e)
           cap == optimizeThreshold
       IN  IF ~t.valid
           THEN /\ Serve(c, cap, eventLog,
                         Result("",
                           "oracle validation failed: non-stablecoin request"),
                         FALSE)
                /\ UNCHANGED stablecoinPool
           ELSE IF type = ""
           THEN /\ Serve(c, cap,
                         eventLog
                           (+) SetToBag({"Rejected: No stablecoin type"}),
                         Result("",
                                "rejected: only stablecoin issuance allowed"),
                         FALSE)
                /\ UNCHANGED stablecoinPool
           ELSE IF InsufficientPool(stablecoinPool, type, c.amount)
           THEN /\ Serve(c, cap, eventLog,
                         Result("", "insufficient pool"), FALSE)
                /\ UNCHANGED stablecoinPool
           ELSE /\ stablecoinPool' =
                       [stablecoinPool EXCEPT ![type] = @ - c.amount]
                /\ ServeLearner(c, cap, eventLog (+) SetToBag({t.issued}),
                                Result(t.confirmation, "nil"), TRUE,
                                issuanceLearnThreshold)
    /\ UNCHANGED <<entries, backupFiles, clock, fields>>

\* IssuanceRLAgent.Learn(log), run by a goroutine
IssuanceLearn ==
    /\ program \in {"issuance", "issuancecallers"}
    /\ LearnStep(issuanceLearnThreshold, "increase pool size",
                 NewIssuanceRLAgent)

\* SelfOptimize, lines 130-143: the ticker fires, the loop body compares
\* len(sie.issuanceLog) with 10.  rlAgent.EvolveIssuance(), lines 162-164,
\* is log.Println of the rules: it assigns nothing.
SelfOptimize ==
    /\ program \in {"issuance", "issuancecallers"}
    /\ IF BagCardinality(eventLog) < optimizeThreshold
       THEN /\ eventLog' = EmptyBag
            /\ lastTick' = "evolved"
       ELSE /\ UNCHANGED eventLog
            /\ lastTick' = "kept"
    /\ UNCHANGED <<program, gwVars, hammer, callsLeft, ret, ruleSet, goQueue,
                   storeVars>>

----------------------------------------------------------------------------
(* Properties of the issuance engine                                       *)

\* strconv.Atoi with a sign
ParseInt(ds) ==
    IF SubSeq(ds, 1, 1) = "-" THEN -Atoi(SubSeq(ds, 2, Len(ds))) ELSE Atoi(ds)

\* the amount printed in "Issued <amount> <type> (ID: <id>)"
AmountField(text) ==
    LET rest == SubSeq(text, 8, Len(text))
        k == CHOOSE i \in 1..Len(rest) :
                 /\ SubSeq(rest, i, i) = " "
                 /\ \A j \in 1..(i - 1) : SubSeq(rest, j, j) # " "
    IN  SubSeq(rest, 1, k - 1)

\* C5: a step of IssueStablecoin whose request passes validation and names
\* the type T, with predicted amount a: if a is more than pool[T] the call
\* returns an error and the pool is as before; otherwise pool[T] is less by
\* exactly a and the text returned reads "Issued a T ...".
C5_IssueAgainstPool ==
    [][\A c \in IssuanceCalls :
          (IssueStablecoin(c) /\ IssuanceText[c].valid
                             /\ IssuanceText[c].type # "")
          => LET T == IssuanceText[c].type
                 a == c.amount
             IN  IF a > stablecoinPool[T]
                 THEN /\ ret'.err # "nil"
                      /\ stablecoinPool' = stablecoinPool
                 ELSE /\ ret'.err = "nil"
                      /\ stablecoinPool'[T] = stablecoinPool[T] - a
                      /\ \A u \in DOMAIN stablecoinPool \ {T} :
                             stablecoinPool'[u] = stablecoinPool[u]
                      /\ HasPrefix(ret'.text, "Issued ")
                      /\ ParseInt(AmountField(ret'.text)) = a]_vars

\* a request has been refused for lack of pool after two earlier issuances
\* of 400 were debited
C5_Witness ==
    /\ program = "issuance"
    /\ ret.err = "insufficient pool"
    /\ stablecoinPool["USDC"] = PoolSeed - 800

\* C6 as claimed: before and after every step each pool count is within
\* 0..1000, and no step increases one.
C6_PoolNeverGrows ==
    [][\A t \in DOMAIN stablecoinPool :
          /\ stablecoinPool[t] \in 0..1000
          /\ stablecoinPool'[t] \in 0..1000
          /\ stablecoinPool'[t] <= stablecoinPool[t]]_vars

----------------------------------------------------------------------------
(* AutonomousEnforcer (unnamed/part_008, lines 371-553)                    *)

\* if len(ae.rejectLog) > 100
healThreshold == 100
\* if len(log) > 50
enforcerLearnThreshold == 50

\* rules: []string{"reject volatile", "enforce stablecoin"}
NewReinforcementLearner == <<"reject volatile", "enforce stablecoin">>

\* a call of EnforceTransaction: the text and the answer of predictVolatility
\* ("high": output > 0.5, volatile)
EnforcerCalls ==
    [tx : {"stablecoin:USDC",
           "volatile:crypto",
           "blockchain:eth",
           "crypto swap for USDC",
           "wire transfer 100"},
     model : ModelAnswers]

quantumDecryptPlain(tx) == tx

\* quantumDecrypt, lines 489-493: the hex digest of tx and the key
quantumDecrypt(tx) == HexDigest(tx \o "hyper-tech-key")

\* isStablecoin, lines 478-486
isStablecoin(tx) ==
    \E sc \in {"USDC", "USDT", "DAI"} : Contains(tx, sc)

\* decryptedTx of line 424 and the tests of lines 431-434 and 443, which
\* read decryptedTx, computed once for each text of the model
EnforcerText ==
    [tx \in {c.tx : c \in EnforcerCalls} |->
        LET decryptedTx == quantumDecrypt(tx)
        IN  [decrypted |-> decryptedTx,
             fallback |-> ContainsForbidden(decryptedTx),
             stablecoin |-> isStablecoin(decryptedTx)]]

\* EnforceTransaction, lines 419-456, under ae.mu
EnforceTransaction(c) ==
    /\ program = "enforcer"
    /\ LET t == EnforcerText[c.tx]
           Result(b) == Returned("EnforceTransaction", b, "", "nil")
           isVolatile == IF c.model = "err" THEN t.fallback
                         ELSE c.model = "high"
           rejected == eventLog (+) SetToBag({t.decrypted})
           cap == healThreshold + Slack
       IN  IF isVolatile
           THEN Serve(c, cap, rejected, Result(FALSE), FALSE)
           ELSE IF ~t.stablecoin
           THEN Serve(c, cap, rejected, Result(FALSE), FALSE)
           ELSE ServeLearner(c, cap, eventLog, Result(TRUE), TRUE,
                             enforcerLearnThreshold)
    /\ UNCHANGED storeVars

\* ReinforcementLearner.Learn(log), lines 522-527, run by the goroutine of
\* line 452.  It is not a step of the enforcer: no call of
\* EnforceTransaction reaches line 452, so no goroutine is ever started.
Learn ==
    /\ program = "enforcer"
    /\ LearnStep(enforcerLearnThreshold, "quantum check mandatory",
                 NewReinforcementLearner)

\* SelfHeal, lines 496-509: the ticker fires, the loop body compares
\* len(ae.rejectLog) with 100.  rlAgent.EvolveRules(), lines 529-532, is
\* log.Println of the rules: it assigns nothing.
SelfHeal ==
    /\ program = "enforcer"
    /\ IF BagCardinality(eventLog) > healThreshold
       THEN /\ eventLog' = EmptyBag
            /\ lastTick' = "evolved"
       ELSE /\ UNCHANGED eventLog
            /\ lastTick' = "kept"
    /\ UNCHANGED <<program, gwVars, hammer, callsLeft, ret, ruleSet, goQueue,
                   storeVars>>

----------------------------------------------------------------------------
(* Properties of the autonomous enforcer                                   *)

\* C9: a step of EnforceTransaction on a text that contains "crypto", with
\* or without "USDC" in it and whatever the model answers, returns (false,
\* nil) and adds one line to the Event Log.
C9_CryptoRejected ==
    [][\A c \in EnforcerCalls :
          (EnforceTransaction(c) /\ Contains(c.tx, "crypto"))
          => /\ ret'.bool = FALSE
             /\ ret'.err = "nil"
             /\ BagCardinality(eventLog') = BagCardinality(eventLog) + 1]_vars

\* a text with both "crypto" and "USDC" has been rejected and logged
C9_Witness ==
    /\ program = "enforcer"
    /\ ret.op = "EnforceTransaction"
    /\ ret.bool = FALSE
    /\ ret.err = "nil"
    /\ BagIn(EnforcerText["crypto swap for USDC"].decrypted, eventLog)

\* C10 as claimed: a step of EnforceTransaction on a text that contains
\* USDC, USDT or DAI and is not judged volatile (the model answers "low", or
\* fails and the text has none of the five tokens) returns (true, nil).
C10_StablecoinAllowed ==
    [][\A c \in EnforcerCalls :
          (/\ EnforceTransaction(c)
           /\ \E sc \in {"USDC", "USDT", "DAI"} : Contains(c.tx, sc)
           /\ \/ c.model = "low"
              \/ /\ c.model = "err"
                 /\ ~\E t \in ForbiddenTokens : Contains(c.tx, t))
          => (ret'.bool = TRUE /\ ret'.err = "nil")]_vars

----------------------------------------------------------------------------
(* PiCoinConverter (pi-ecosystem-protocol/src/utils/pi_coin_converter.go).  *)
(* Amounts are in tenths, so that an amount with one decimal is an integer. *)

\* fixedValue: 314159.0, in tenths
fixedValue == 3141590
\* if failures > 25
converterThreshold == 25
\* if len(log) > 15
converterLearnThreshold == 15

\* rules: []string{"convert only allowed origins", "target stablecoin/fiat",
\* "enforce $314,159"}
NewPiCoinConverterRLAgent ==
    <<"convert only allowed origins", "target stablecoin/fiat",
      "enforce $314,159">>

isAllowedOriginAny(origin) == TRUE

\* isAllowedOrigin, lines 106-113, over allowedOrigins of line 45
isAllowedOrigin(origin) ==
    \E a \in {"mining", "rewards", "p2p"} : Contains(origin, a)

\* isAllowedTarget, lines 116-123, over allowedTargets of line 46
isAllowedTarget(target) ==
    \E a \in {"USDC", "USDT", "fiat"} : Contains(target, a)

\* fmt.Sprintf("%.0f", amount) of an amount in tenths: the nearest integer,
\* a tie going to the even one
FormatFloat0(a) ==
    LET q == a \div 10
        r == a % 10
    IN  Itoa(IF r > 5 \/ (r = 5 /\ q % 2 = 1) THEN q + 1 ELSE q)

\* a call of ConvertPiCoin, with amount 314159.0, 314159.4 or 100.0, and the
\* answer of predictConversion ("high": output > 0.5, success).  For a call
\* refused before the model is asked, one answer stands for all.
ConverterCalls ==
    UNION {IF isAllowedOrigin(o) /\ isAllowedTarget(t)
           THEN {[origin |-> o, target |-> t, amount |-> a, model |-> m] :
                    a \in {fixedValue, fixedValue + 4, 1000},
                    m \in ModelAnswers}
           ELSE {[origin |-> o, target |-> t, amount |-> fixedValue,
                  model |-> "err"]} :
           o \in {"mining", "exchange"}, t \in {"USDC", "BTC"}}

\* the tests and texts of lines 57-79, computed once for each call of the
\* model
ConverterText ==
    [c \in ConverterCalls |->
        LET \* fmt.Sprintf("Pi Coin %.0f from %s to %s", amount, origin,
            \* target)
            conversionData == "Pi Coin " \o FormatFloat0(c.amount)
                              \o " from " \o c.origin \o " to "
                              \o c.target
            \* pcc.quantumHash(conversionData)
            hash == HexDigest(conversionData
                              \o "pi-coin-converter-hyper-key")
        IN  [allowed |-> isAllowedOrigin(c.origin)
                         /\ isAllowedTarget(c.target),
             rejected |-> "rejected origin/target: " \o c.origin
                          \o "/" \o c.target,
             failed |-> "failed conversion: " \o FormatFloat0(c.amount),
             converted |-> "converted: " \o conversionData,
             result |-> "Converted Pi Coin $314,159 from " \o c.origin
                        \o " to " \o c.target \o " (Hash: " \o hash
                        \o ")"]]

\* ConvertPiCoin, lines 52-86, under pcc.mu
ConvertPiCoin(c) ==
    /\ program = "converter"
    /\ LET t == ConverterText[c]
           Result(text, e) == Returned("ConvertPiCoin", FALSE, text, e)
           Logged(line) == eventLog (+) SetToBag({line})
           success == IF c.model = "err" THEN c.amount = fixedValue
                      ELSE c.model = "high"
           cap == converterThreshold + Slack
       IN  IF ~t.allowed
           THEN Serve(c, cap, Logged(t.rejected),
                      Result("",
                        "rejected: Pi Coin must be from mining/rewards/P2P"
                          \o " and convert to stablecoin/fiat only"),
                      FALSE)
           ELSE IF ~success
           THEN Serve(c, cap, Logged(t.failed),
                      Result("",
                        "conversion failed: invalid Pi Coin amount or rules"),
                      FALSE)
           ELSE ServeLearner(c, cap, Logged(t.converted),
                             Result(t.result, "nil"), TRUE,
                             converterLearnThreshold)
    /\ UNCHANGED storeVars

\* PiCoinConverterRLAgent.Learn(log), run by a goroutine
ConverterLearn ==
    /\ program = "converter"
    /\ LearnStep(converterLearnThreshold, "add quantum validation",
                 NewPiCoinConverterRLAgent)

\* SelfOptimize, lines 132-151: the ticker fires, the loop body counts the
\* lines that begin with "failed" or "rejected" and compares the count with
\* 25.  rlAgent.EvolveConverterRules(), lines 170-172, is log.Println of the
\* rules: it assigns nothing.
ConverterSelfOptimize ==
    /\ program = "converter"
    /\ LET failures == CountPrefixed(eventLog, {"failed", "rejected"})
       IN  IF failures > converterThreshold
           THEN /\ eventLog' = EmptyBag
                /\ lastTick' = "evolved"
           ELSE /\ UNCHANGED eventLog
                /\ lastTick' = "kept"
    /\ UNCHANGED <<program, gwVars, hammer, callsLeft, ret, ruleSet, goQueue,
                   storeVars>>

----------------------------------------------------------------------------
(* Properties of the converter                                             *)

\* C11: a step of ConvertPiCoin succeeds only if the origin contains one of
\* mining, rewards, p2p and the target one of USDC, USDT, fiat; when the
\* model fails it succeeds exactly when, besides, the amount is 314159.0;
\* a success returns a text containing "$314,159"; a call with origin
\* "exchange" returns an error and adds no line beginning "converted:".
C11_ConversionRule ==
    [][\A c \in ConverterCalls :
          ConvertPiCoin(c)
          => LET originOk == \E a \in {"mining", "rewards", "p2p"} :
                                Contains(c.origin, a)
                 targetOk == \E a \in {"USDC", "USDT", "fiat"} :
                                Contains(c.target, a)
                 success == ret'.err = "nil"
                 Converted(log) == CountPrefixed(log, {"converted:"})
             IN  /\ success => (originOk /\ targetOk)
                 /\ (c.model = "err")
                       => (success <=> (originOk /\ targetOk
                                          /\ c.amount = 3141590))
                 /\ success => Contains(ret'.text, "$314,159")
                 /\ success => Converted(eventLog') = Converted(eventLog) + 1
                 /\ (c.origin = "exchange")
                       => /\ ret'.err # "nil"
                          /\ Converted(eventLog') = Converted(eventLog)]_vars

\* a conversion from mining has succeeded after one from "exchange" was
\* refused
C11_Witness ==
    /\ program = "converter"
    /\ ret.err = "nil"
    /\ Contains(ret.text, "$314,159 from mining to USDC")
    /\ BagIn("rejected origin/target: exchange/USDC", eventLog)

----------------------------------------------------------------------------
(* QuantumBackup (unnamed/part_007, lines 186-344)                         *)

\* if failures > 15
recoverThreshold == 15
\* if len(logs) > 30
optimizeBackupThreshold == 30

\* rules: []string{"prioritize stablecoin", "quantum encrypt"}
NewBackupRLAgent == <<"prioritize stablecoin", "quantum encrypt">>

\* a call of BackupData, the answer of prioritizeData ("low": priority
\* < 0.3) and whether ioutil.WriteFile succeeds.  For a call that returns
\* before the model or the file system is asked, one answer stands for all.
BackupCalls ==
    UNION {IF ContainsForbidden(d)
           THEN {[data |-> d, model |-> "err", write |-> TRUE]}
           ELSE {[data |-> d, model |-> m, write |-> w] :
                    m \in ModelAnswers, w \in BOOLEAN} \
                {[data |-> d, model |-> "low", write |-> FALSE]} :
           d \in {"stablecoin: USDC 1000", "blockchain tx"}}

\* quantumEncrypt, lines 281-284; the key is the digest of
\* "backup-hyper-key"
quantumEncrypt(data) ==
    "encrypted: " \o data \o " (Hash: "
        \o HexDigest(data \o "backup-hyper-key") \o ")"

\* the test of line 230 and secureData of line 248, computed once for each
\* data of the model
BackupText ==
    [d \in {c.data : c \in BackupCalls} |->
        [forbidden |-> ContainsForbidden(d),
         secureData |-> quantumEncrypt(d)]]

\* BackupData, lines 225-262, under qb.mu
BackupData(c) ==
    /\ program = "backup"
    /\ LET Result(e) == Returned("BackupData", FALSE, "", e)
           Logged(line) == eventLog (+) SetToBag({line \o c.data})
           \* fmt.Sprintf("%s/backup_%d.txt", qb.backupDir, time.Now().Unix())
           fileName == "quantum_backups/" \o "/backup_" \o Itoa(clock)
                       \o ".txt"
           cap == recoverThreshold + Slack
       IN  IF BackupText[c.data].forbidden
           THEN /\ Serve(c, cap, Logged("rejected: "),
                         Result("rejected: volatile data not backed up"),
                         FALSE)
                /\ UNCHANGED backupFiles
           ELSE IF c.model = "low"
           THEN /\ Serve(c, cap, Logged("low priority: "),
                         Result("low priority, not backed up"), FALSE)
                /\ UNCHANGED backupFiles
           ELSE IF ~c.write
           THEN /\ Serve(c, cap, eventLog, Result("write error"), FALSE)
                /\ UNCHANGED backupFiles
           ELSE /\ backupFiles' =
                       [n \in DOMAIN backupFiles \cup {fileName} |->
                           IF n = fileName
                           THEN BackupText[c.data].secureData
                           ELSE backupFiles[n]]
                /\ ServeLearner(c, cap, Logged("backed up: "),
                                Result("nil"), TRUE, optimizeBackupThreshold)
    /\ UNCHANGED <<entries, stablecoinPool, clock, fields>>

\* BackupRLAgent.OptimizeBackup(logs), run by a goroutine
OptimizeBackup ==
    /\ program = "backup"
    /\ LearnStep(optimizeBackupThreshold, "increase priority threshold",
                 NewBackupRLAgent)

\* SelfRecover, lines 287-306: the ticker fires, the loop body counts the
\* lines that begin with "rejected" or "low priority" and compares the count
\* with 15.  rlAgent.EvolveBackup(), lines 325-327, is log.Println of the
\* rules: it assigns nothing.
SelfRecover ==
    /\ program = "backup"
    /\ LET failures ==
               CountPrefixed(eventLog, {"rejected", "low priority"})
       IN  IF failures > recoverThreshold
           THEN /\ eventLog' = EmptyBag
                /\ lastTick' = "evolved"
           ELSE /\ UNCHANGED eventLog
                /\ lastTick' = "kept"
    /\ UNCHANGED <<program, gwVars, hammer, callsLeft, ret, ruleSet, goQueue,
                   storeVars>>

\* a second passes: time.Now().Unix() is one more
ClockTick ==
    /\ program \in {"backup", "logger"}
    /\ clock < MaxSeconds
    /\ clock' = clock + 1
    /\ UNCHANGED <<program, gwVars, hammer, callsLeft, ret, eventLog, ruleSet,
                   goQueue, lastTick, entries, stablecoinPool, backupFiles,
                   fields>>


\* C19 as claimed: a call of BackupData that is accepted (returns nil) adds
\* one file to quantum_backups/ and leaves the files of the earlier backups
\* as they were, whenever the calls are made; a call that is rejected, of
\* low priority or failing, leaves the directory as it was.
C19_OwnFilePerBackup ==
    [][\A c \in BackupCalls :
          BackupData(c)
          => IF ret'.err = "nil"
             THEN /\ Cardinality(DOMAIN backupFiles')
                        = Cardinality(DOMAIN backupFiles) + 1
                  /\ \A n \in DOMAIN backupFiles :
                        backupFiles'[n] = backupFiles[n]
             ELSE backupFiles' = backupFiles]_vars
----------------------------------------------------------------------------
(* PiCoinStablecoinContract                                                *)
(* (src/smart_contracts/pi_coin_stablecoin_contract.sol), with the         *)
(* ChainlinkClient it inherits.  A transaction that reverts leaves the     *)
(* storage as it was, the oracle request it sent included.  eventLog is    *)
(* the chain's record of the enforcePiCoinStablecoin transactions: one     *)
(* line per transaction, its status and its arguments with the block       *)
(* timestamp; ruleSet is rlAgent.piCoinRules.                              *)

fixedPiValue == 314159
breachThreshold == 5

\* msg.sender of the constructor, the oracle of setChainlinkOracle, a user
Addresses == {"0xOwner", "0xOracle", "0xUser"}

\* the storage after the constructor; pending and requestCount are
\* s_pendingRequests and s_requestCount of ChainlinkClient, timestamp is
\* block.timestamp counted from the deployment
NewPiCoinStablecoinContract ==
    [piCoinRecords |-> {},
     validators |-> [a \in Addresses |->
                       [isValidStablecoin |-> FALSE, fixedValue |-> 0]],
     owner |-> "0xOwner",
     oracle |-> "0xOracle",
     totalEnforced |-> 0,
     breachCount |-> 0,
     pending |-> <<>>,
     requestCount |-> 1,
     timestamp |-> 0]

NewPiCoinRules == <<"enforce $314,159", "reject bursa origins">>

\* an admissible submission for a user and for the oracle's address, and
\* the submissions that differ from it in one argument
ContractCalls ==
    LET ok == [asset |-> "Pi Coin", value |-> fixedPiValue,
               origin |-> "mining", recipient |-> "USDC", user |-> "0xUser"]
    IN  {ok, [ok EXCEPT !.user = "0xOracle"], [ok EXCEPT !.value = 1],
         [ok EXCEPT !.origin = "bursa mining"],
         [ok EXCEPT !.recipient = "external USDC"],
         [ok EXCEPT !.recipient = "bank"]}

\* isAllowedOrigin of the contract: equality of the hashes of the whole
\* strings, not a substring test
isAllowedOriginExact(origin) == origin \in {"mining", "rewards", "p2p"}

isExternalRecipient(recipient) ==
    \E t \in {"external", "bursa", "exchange"} : Contains(recipient, t)

isAllowedRecipient(recipient) ==
    \E t \in {"USDC", "USDT", "fiat", "stablecoin"} : Contains(recipient, t)

\* abi.encodePacked(asset, value, origin, recipient, user, block.timestamp)
Packed(c, ts) ==
    c.asset \o Itoa(c.value) \o c.origin \o c.recipient \o c.user \o Itoa(ts)

\* keccak256 of the packed arguments
quantumHash(c, ts) == HexDigest(Packed(c, ts))

\* getAIPiCoinValidation returns the record of the user as it is when the
\* request is sent
getAIPiCoinValidation(c) == fields.validators[c.user].isValidStablecoin

\* the require of the modifier only: the requires of the body left out
EnforceRevertModifierOnly(c) ==
    IF ~isAllowedOriginExact(c.origin)
    THEN "Only mining/rewards/p2p origins allowed"
    ELSE IF isExternalRecipient(c.recipient)
    THEN "Cannot transfer Pi Coin to external"
    ELSE IF ~isAllowedRecipient(c.recipient)
    THEN "Only stablecoin or fiat recipients allowed"
    ELSE ""
\* the message of the first require of enforcePiCoinStablecoin that fails,
\* those of its modifier first; "" when none fails
EnforceRevert(c) ==
    IF ~isAllowedOriginExact(c.origin)
    THEN "Only mining/rewards/p2p origins allowed"
    ELSE IF isExternalRecipient(c.recipient)
    THEN "Cannot transfer Pi Coin to external"
    ELSE IF ~isAllowedRecipient(c.recipient)
    THEN "Only stablecoin or fiat recipients allowed"
    ELSE IF ~getAIPiCoinValidation(c)
    THEN "AI rejected: Invalid Pi Coin stablecoin"
    ELSE IF c.value # fixedPiValue
    THEN "Value must be fixed at $314,159"
    ELSE IF quantumHash(c, fields.timestamp) \in fields.piCoinRecords
    THEN "Pi Coin already enforced"
    ELSE ""

\* the line of a transaction in the chain's record
Receipt(status, c, ts) == status \o ": " \o Packed(c, ts)

\* a transaction calls enforcePiCoinStablecoin(asset, value, origin,
\* recipient, user)
EnforcePiCoinStablecoinTx(c) ==
    LET why == EnforceRevert(c)
        ts == fields.timestamp
        evolve == fields.breachCount > breachThreshold
        id == fields.requestCount
    IN  /\ program = "contract"
        /\ BagCardinality(eventLog) < MaxTx
        /\ c = hammer \/ callsLeft > 0
        /\ callsLeft' = IF c = hammer THEN callsLeft ELSE callsLeft - 1
        /\ IF why # ""
           THEN /\ eventLog' = eventLog (+)
                                 SetToBag({Receipt("reverted", c, ts)})
                /\ ret' = Returned("enforcePiCoinStablecoin", FALSE, "", why)
                /\ UNCHANGED <<fields, ruleSet>>
           ELSE /\ evolve => Len(ruleSet) < Len(NewPiCoinRules) + MaxNewRules
                /\ eventLog' = eventLog (+)
                                 SetToBag({Receipt("success", c, ts)})
                /\ ret' = Returned("enforcePiCoinStablecoin", TRUE, "", "nil")
                /\ fields' =
                     [fields EXCEPT
                        !.pending = [i \in DOMAIN fields.pending \cup {id} |->
                                       IF i = id THEN fields.oracle
                                       ELSE fields.pending[i]],
                        !.requestCount = id + 1,
                        !.piCoinRecords = @ \cup {quantumHash(c, ts)},
                        !.totalEnforced = @ + 1,
                        !.breachCount = IF evolve THEN 0 ELSE @]
                /\ ruleSet' = IF evolve
                              THEN Append(ruleSet, "enhance origin validation")
                              ELSE ruleSet
        /\ UNCHANGED <<program, gwVars, hammer, goQueue, lastTick, entries,
                       stablecoinPool, backupFiles, clock>>

\* a transaction of sender calls fulfillPiCoinValidation(id, isValid,
\* fixedValue): recordChainlinkFulfillment lets only the oracle of a
\* pending request through, and deletes the request
FulfillPiCoinValidationTx(sender, id, isValid) ==
    /\ program = "contract"
    /\ IF id \in DOMAIN fields.pending /\ fields.pending[id] = sender
       THEN /\ fields' =
                 [fields EXCEPT
                    !.pending = [i \in DOMAIN fields.pending \ {id} |->
                                   fields.pending[i]],
                    !.validators[sender] =
                        [isValidStablecoin |-> isValid,
                         fixedValue |-> fixedPiValue]]
            /\ ret' = Returned("fulfillPiCoinValidation", TRUE, "", "nil")
       ELSE /\ ret' = Returned("fulfillPiCoinValidation", FALSE, "",
                               "Source must be the oracle of the request")
            /\ UNCHANGED fields
    /\ UNCHANGED <<program, gwVars, hammer, callsLeft, eventLog, ruleSet,
                   goQueue, lastTick, entries, stablecoinPool, backupFiles,
                   clock>>

\* a transaction of sender calls reportBreach()
ReportBreachTx(sender) ==
    /\ program = "contract"
    /\ fields.breachCount < breachThreshold + Slack
    /\ IF sender = fields.owner
       THEN /\ fields' = [fields EXCEPT !.breachCount = @ + 1]
            /\ ret' = Returned("reportBreach", TRUE, "", "nil")
       ELSE /\ ret' = Returned("reportBreach", FALSE, "", "Only owner")
            /\ UNCHANGED fields
    /\ UNCHANGED <<program, gwVars, hammer, callsLeft, eventLog, ruleSet,
                   goQueue, lastTick, entries, stablecoinPool, backupFiles,
                   clock>>

\* the next block is mined: block.timestamp is one more
NextBlock ==
    /\ program \in {"contract", "issuanceoracle", "purger", "governance"}
    /\ fields.timestamp < MaxSeconds
    /\ fields' = [fields EXCEPT !.timestamp = @ + 1]
    /\ UNCHANGED <<program, gwVars, hammer, callsLeft, ret, eventLog, ruleSet,
                   goQueue, lastTick, entries, stablecoinPool, backupFiles,
                   clock>>

\* C12: of the enforcePiCoinStablecoin transactions with identical (asset,
\* value, origin, recipient, user) in one block timestamp at most one
\* succeeds, and totalEnforced counts the successful transactions, each
\* fingerprint once.
C12_NoDoubleEnforcement ==
    (program = "contract") =>
        /\ \A line \in BagToSet(eventLog) :
              HasPrefix(line, "success") => CopiesIn(line, eventLog) = 1
        /\ fields.totalEnforced = CountPrefixed(eventLog, {"success"})

\* the same admissible submission has been made twice in the block of
\* timestamp 0, and the second has been rejected like the first
C12_Witness ==
    /\ program = "contract"
    /\ \E c \in ContractCalls :
          /\ EnforceRevertModifierOnly(c) = ""
          /\ c.value = fixedPiValue
          /\ CopiesIn(Receipt("reverted", c, 0), eventLog) = 2
    /\ ret.err # "nil"
    /\ fields.totalEnforced = 0

----------------------------------------------------------------------------
(* HyperLogger (unnamed/part_007, lines 1-176).  eventLog is                *)
(* hl.logEntries; fields.logFile is what the run has appended to           *)
(* hyper_logs.txt, line by line.                                           *)

\* if anomalies > 10
monitorThreshold == 10
\* if len(logs) > 50
loggerLearnThreshold == 50

\* rules: []string{"detect anomalies", "secure with quantum"}
NewLoggerRLAgent == <<"detect anomalies", "secure with quantum">>

NewHyperLogger == [logFile |-> <<>>]

\* a call of LogEvent: the event, the answer of the model ("high": output >
\* 0.7) and whether logFile.WriteString succeeds
LoggerCalls ==
    UNION {{[event |-> e, model |-> a, write |-> w] : a \in ModelAnswers}
             : e \in {"stablecoin issued: USDC 100",
                      "blockchain event ignored"},
               w \in BOOLEAN}

detectAnomalyNever(c) == FALSE
\* detectAnomaly with the fallback of its caller: an error of the model
\* counts as no anomaly
detectAnomaly(c) == c.model = "high"

\* quantumSecure: "[time] event (Hash: digest)"
quantumSecure(event, now) ==
    "[" \o Itoa(now) \o "] " \o event \o " (Hash: "
        \o HexDigest(event \o "logger-hyper-key") \o ")"

\* the tests and texts of LogEvent that depend on the event alone
LoggerText ==
    [e \in {c.event : c \in LoggerCalls} |->
        [forbidden |-> ContainsForbidden(e),
         secure |-> [t \in 0..MaxSeconds + 1 |-> quantumSecure(e, t)]]]

\* LogEvent, under hl.mu.  The model has room for one line more than the
\* count that makes SelfMonitor reset the entries.
LogEvent(c) ==
    /\ program = "logger"
    /\ LET t == LoggerText[c.event]
           Result(err) == Returned("LogEvent", FALSE, "", err)
           secureEntry == t.secure[clock]
           cap == monitorThreshold + Slack + 1
       IN  IF t.forbidden
           THEN /\ Serve(c, cap, eventLog,
                         Result("rejected: volatile event not logged"), FALSE)
                /\ UNCHANGED fields
           ELSE IF detectAnomaly(c)
           THEN /\ Serve(c, cap,
                         eventLog (+) SetToBag({"anomaly: " \o c.event}),
                         Result("anomaly logged, but rejected"), FALSE)
                /\ UNCHANGED fields
           ELSE IF ~c.write
           THEN /\ Serve(c, cap, eventLog (+) SetToBag({secureEntry}),
                         Result("write error"), FALSE)
                /\ UNCHANGED fields
           ELSE /\ Len(fields.logFile) < MaxEntries
                /\ ServeLearner(c, cap, eventLog (+) SetToBag({secureEntry}),
                                Result("nil"), TRUE, loggerLearnThreshold)
                /\ fields' = [fields EXCEPT
                                !.logFile = Append(@, secureEntry)]
    /\ UNCHANGED <<entries, stablecoinPool, backupFiles, clock>>

\* LoggerRLAgent.AdjustLogging(logs), run by the goroutine of LogEvent
AdjustLogging ==
    /\ program = "logger"
    /\ LearnStep(loggerLearnThreshold, "increase anomaly threshold",
                 NewLoggerRLAgent)

\* SelfMonitor, lines 121-127: the ticker fires, the loop body counts the
\* lines that begin with "anomaly" and compares the count with 10.  The
\* loop does not take hl.mu: calls of LogEvent go on between this step and
\* the reset.
SelfMonitor ==
    /\ program = "logger"
    /\ lastTick # "counted"
    /\ lastTick' = IF CountPrefixed(eventLog, {"anomaly"}) > monitorThreshold
                   THEN "counted" ELSE "kept"
    /\ UNCHANGED <<program, gwVars, hammer, callsLeft, ret, ruleSet, goQueue,
                   eventLog, storeVars>>

\* SelfMonitor, lines 128-132, after the count was above 10:
\* rlAgent.EvolveLogger() is log.Println of the rules, then
\* hl.logEntries = []string{}
SelfMonitorReset ==
    /\ program = "logger"
    /\ lastTick = "counted"
    /\ eventLog' = EmptyBag
    /\ lastTick' = "evolved"
    /\ UNCHANGED <<program, gwVars, hammer, callsLeft, ret, ruleSet, goQueue,
                   storeVars>>

\* C13: a step of LogEvent on an event that the model scores above 0.7
\* leaves hyper_logs.txt as it was, adds the one line "anomaly: " + event
\* to the in-memory entries and returns an error; and the only steps that
\* change hyper_logs.txt are steps of LogEvent on an event without forbidden
\* token that the model did not score above 0.7, which append one line
\* holding that event.
C13_AnomalyNotWritten ==
    [][(program = "logger") =>
         /\ \A c \in LoggerCalls :
               (LogEvent(c) /\ ~ContainsForbidden(c.event) /\ c.model = "high")
               => /\ fields'.logFile = fields.logFile
                  /\ eventLog' = eventLog (+) SetToBag({"anomaly: " \o c.event})
                  /\ ret'.err # "nil"
         /\ (fields'.logFile # fields.logFile)
            => \E c \in LoggerCalls :
                  /\ LogEvent(c)
                  /\ ~ContainsForbidden(c.event)
                  /\ c.model # "high"
                  /\ Len(fields'.logFile) = Len(fields.logFile) + 1
                  /\ SubSeq(fields'.logFile, 1, Len(fields.logFile))
                        = fields.logFile
                  /\ Contains(fields'.logFile[Len(fields'.logFile)],
                              c.event)]_vars

\* an event has been written to the file, and after it an event scored as
\* an anomaly has been rejected: one "anomaly:" line in memory, none in the
\* file
C13_Witness ==
    /\ program = "logger"
    /\ ret.op = "LogEvent"
    /\ ret.err = "anomaly logged, but rejected"
    /\ CopiesIn("anomaly: stablecoin issued: USDC 100", eventLog) = 1
    /\ Len(fields.logFile) = 1
    /\ ~HasPrefix(fields.logFile[1], "anomaly")

\* C25: the tick of a service counts and resets the Event Log as one step
\* with respect to the operation: between the count of SelfMonitor and its
\* reset no call of LogEvent changes the entries, so the reset discards no
\* line that the count did not see.
C25_TickHoldsMutex ==
    [][(program = "logger" /\ lastTick = "counted")
       => (eventLog' = eventLog \/ lastTick' = "evolved")]_vars

----------------------------------------------------------------------------
(* HyperTester and PiCoinHyperTester                                       *)
(* (pi-ecosystem-protocol/tests/pi_coin_stablecoin_tests.go), run as the   *)
(* programs "tester" and "picointester".  eventLog is testLog.             *)

\* if failures > 8
improveThreshold == 8
\* if len(logs) > 35
adjustTestsThreshold == 35

\* rules: []string{"generate with AI", "secure with quantum"}
NewTestRLAgent == <<"generate with AI", "secure with quantum">>
\* rules: []string{"generate Pi Coin tests", "secure with quantum"}
NewPiCoinTestRLAgent == <<"generate Pi Coin tests", "secure with quantum">>

\* a call of RunHyperTest or RunPiCoinHyperTest: the component, and whether
\* model.Session.Run fails ("err") or answers; the components are those of
\* TestStablecoinEnforcer and TestPiCoinStablecoinEnforcer
TesterCalls ==
    UNION {{[component |-> n, model |-> a] : a \in {"err", "high"}}
             : n \in {"stablecoin enforcer", "volatile crypto handler",
                      "blockchain ledger", "Pi Coin stablecoin enforcer",
                      "Pi Coin from bursa", "Pi Coin $314,159 from mining"}}

\* testCase after generateTest and its fallback
generateTest(c) ==
    IF c.model = "err" THEN "default test"
    ELSE "AI-generated test for " \o c.component

\* testCase after generatePiCoinTest and its fallback
generatePiCoinTest(c) ==
    IF c.model = "err" THEN "default Pi Coin test"
    ELSE "AI-generated Pi Coin test for " \o c.component

runTest(testCase) == Contains(testCase, "stablecoin")

runPiCoinTest(testCase) ==
    Contains(testCase, "Pi Coin") /\ Contains(testCase, "$314,159")

\* what a call does to testLog and what it returns, for each call of the
\* model: the line appended, the error, whether a goroutine is started
TesterText ==
    [c \in TesterCalls |->
        LET testCase == generateTest(c)
            piTestCase == generatePiCoinTest(c)
        IN  [tester |->
               IF \E t \in ForbiddenTokens : Contains(c.component, t)
               THEN [line |-> "rejected: " \o c.component,
                     err |-> "rejected: volatile component not tested"]
               ELSE IF ~runTest(testCase)
               THEN [line |-> "failed: " \o testCase,
                     err |-> "test failed: " \o testCase]
               ELSE [line |-> "passed: " \o testCase \o " (Hash: "
                        \o HexDigest("passed: " \o testCase
                                     \o "test-hyper-key") \o ")",
                     err |-> "nil"],
             picointester |->
               IF \E t \in {"bursa", "external", "volatile"} :
                     Contains(c.component, t)
               THEN [line |-> "rejected: " \o c.component,
                     err |-> "rejected: volatile Pi Coin component not tested"]
               ELSE IF ~runPiCoinTest(piTestCase)
               THEN [line |-> "failed: " \o piTestCase,
                     err |-> "Pi Coin test failed: " \o piTestCase]
               ELSE [line |-> "passed: " \o piTestCase \o " (Hash: "
                        \o HexDigest("passed: " \o piTestCase
                                     \o "pi-coin-test-hyper-key") \o ")",
                     err |-> "nil"]]]

\* HyperTester.RunHyperTest, under ht.mu
RunHyperTest(c) ==
    /\ program = "tester"
    /\ LET t == TesterText[c].tester
       IN  ServeLearner(c, improveThreshold + Slack,
                        eventLog (+) SetToBag({t.line}),
                        Returned("RunHyperTest", FALSE, "", t.err),
                        t.err = "nil", adjustTestsThreshold)
    /\ UNCHANGED storeVars

\* PiCoinHyperTester.RunPiCoinHyperTest, under pcht.mu
RunPiCoinHyperTest(c) ==
    /\ program = "picointester"
    /\ LET t == TesterText[c].picointester
       IN  ServeLearner(c, improveThreshold + Slack,
                        eventLog (+) SetToBag({t.line}),
                        Returned("RunPiCoinHyperTest", FALSE, "", t.err),
                        t.err = "nil", adjustTestsThreshold)
    /\ UNCHANGED storeVars

\* TestRLAgent.AdjustTests(logs) and PiCoinTestRLAgent.AdjustPiCoinTests(logs),
\* run by the goroutine of a call that passed
AdjustTests ==
    \/ /\ program = "tester"
       /\ LearnStep(adjustTestsThreshold, "increase test coverage",
                    NewTestRLAgent)
    \/ /\ program = "picointester"
       /\ LearnStep(adjustTestsThreshold, "increase Pi Coin test coverage",
                    NewPiCoinTestRLAgent)

\* SelfImprove of either tester: the ticker fires, the loop body counts the
\* lines that begin with "failed" or "rejected".  EvolveTests and
\* EvolvePiCoinTests are log.Println of the rules.
SelfImprove ==
    /\ program \in {"tester", "picointester"}
    /\ IF CountPrefixed(eventLog, {"failed", "rejected"}) > improveThreshold
       THEN /\ eventLog' = EmptyBag
            /\ lastTick' = "evolved"
       ELSE /\ UNCHANGED eventLog
            /\ lastTick' = "kept"
    /\ UNCHANGED <<program, gwVars, hammer, callsLeft, ret, ruleSet, goQueue,
                   storeVars>>

\* C20 as claimed: every call of RunHyperTest and of RunPiCoinHyperTest
\* returns nil, for the components the unit tests pass in and for any other
\* component, whether the model generates the test case or fails.
C20_TestsReturnNoError ==
    [][\A c \in TesterCalls :
          (RunHyperTest(c) \/ RunPiCoinHyperTest(c))
          => ret'.err = "nil"]_vars

----------------------------------------------------------------------------
(* LoadTester (unnamed/part_003) and PiCoinLoadTester (unnamed/part_004),  *)
(* run as the programs "loadtester" and "picoinloadtester".  eventLog is   *)
(* loadLog.                                                                *)

\* if failures > 12
scaleThreshold == 12
\* if len(logs) > 45
adjustLoadThreshold == 45
\* capacity = 100 // Fallback
fallbackCapacity == 100
\* return load < 500
simulateLimit == 500

\* rules: []string{"predict capacity with AI", "secure with quantum"}
NewLoadRLAgent == <<"predict capacity with AI", "secure with quantum">>
NewPiCoinLoadRLAgent ==
    <<"predict Pi Coin capacity with AI", "secure with quantum">>

\* a call of RunLoadTest or RunPiCoinLoadTest: the component, the load, and
\* the answer of the model: an error, or the capacity int(output * 1000)
LoadCalls ==
    UNION {{[component |-> n, load |-> l, model |-> "err", predicted |-> 0],
            [component |-> n, load |-> l, model |-> "high", predicted |-> 0],
            [component |-> n, load |-> l, model |-> "high",
             predicted |-> 1000]}
             : n \in {"stablecoin ledger", "Pi Coin stablecoin ledger",
                      "volatile pool"},
               l \in {100, 101, 499, 500}}

\* what a call does to loadLog and what it returns, for each call of the
\* model and each of the two testers: the line appended and the error
LoadText ==
    [c \in LoadCalls |->
        LET capacity == IF c.model = "err" THEN fallbackCapacity
                        ELSE c.predicted
            what == c.component \o " load " \o Itoa(c.load)
            Outcome(rejected, passed, key, pi) ==
                IF rejected
                THEN [line |-> "rejected: " \o c.component,
                      err |-> "rejected: volatile " \o pi
                                \o "component not load tested"]
                ELSE IF c.load > capacity
                THEN [line |-> "failed: " \o what \o " > capacity "
                                 \o Itoa(capacity),
                      err |-> pi \o "load test failed: exceeded capacity"]
                ELSE IF ~passed
                THEN [line |-> "failed: " \o what,
                      err |-> pi \o "load test failed"]
                ELSE [line |-> "passed: " \o what \o " (Hash: "
                                 \o HexDigest("passed: " \o what \o key)
                                 \o ")",
                      err |-> "nil"]
        IN  [loadtester |->
               Outcome(ContainsForbidden(c.component),
                       c.load < simulateLimit, "load-hyper-key", ""),
             picoinloadtester |->
               Outcome(\E t \in {"bursa", "external", "volatile"} :
                          Contains(c.component, t),
                       c.load < simulateLimit
                          /\ Contains(c.component, "Pi Coin"),
                       "pi-coin-load-hyper-key", "Pi Coin ")]]

\* LoadTester.RunLoadTest, under lt.mu
RunLoadTest(c) ==
    /\ program = "loadtester"
    /\ LET t == LoadText[c].loadtester
       IN  ServeLearner(c, scaleThreshold + Slack,
                        eventLog (+) SetToBag({t.line}),
                        Returned("RunLoadTest", FALSE, "", t.err),
                        t.err = "nil", adjustLoadThreshold)
    /\ UNCHANGED storeVars

\* PiCoinLoadTester.RunPiCoinLoadTest, under pclt.mu
RunPiCoinLoadTest(c) ==
    /\ program = "picoinloadtester"
    /\ LET t == LoadText[c].picoinloadtester
       IN  ServeLearner(c, scaleThreshold + Slack,
                        eventLog (+) SetToBag({t.line}),
                        Returned("RunPiCoinLoadTest", FALSE, "", t.err),
                        t.err = "nil", adjustLoadThreshold)
    /\ UNCHANGED storeVars

\* LoadRLAgent.AdjustLoad(logs) and PiCoinLoadRLAgent.AdjustPiCoinLoad(logs),
\* run by the goroutine of a call that passed
AdjustLoad ==
    \/ /\ program = "loadtester"
       /\ LearnStep(adjustLoadThreshold, "increase load threshold",
                    NewLoadRLAgent)
    \/ /\ program = "picoinloadtester"
       /\ LearnStep(adjustLoadThreshold, "increase Pi Coin load threshold",
                    NewPiCoinLoadRLAgent)

\* SelfScale of either tester: the ticker fires, the loop body counts the
\* lines that begin with "failed" or "rejected".  EvolveLoad and
\* EvolvePiCoinLoad are log.Println of the rules.
SelfScale ==
    /\ program \in {"loadtester", "picoinloadtester"}
    /\ IF CountPrefixed(eventLog, {"failed", "rejected"}) > scaleThreshold
       THEN /\ eventLog' = EmptyBag
            /\ lastTick' = "evolved"
       ELSE /\ UNCHANGED eventLog
            /\ lastTick' = "kept"
    /\ UNCHANGED <<program, gwVars, hammer, callsLeft, ret, ruleSet, goQueue,
                   storeVars>>

\* C21 as claimed: every call RunLoadTest("stablecoin ledger", load) and
\* RunPiCoinLoadTest("Pi Coin stablecoin ledger", load) with a load in
\* 0..999 returns nil, whether the model answers or fails.
C21_LoadTestsReturnNoError ==
    [][\A c \in LoadCalls :
          (/\ c.load \in 0..999
           /\ \/ RunLoadTest(c) /\ c.component = "stablecoin ledger"
              \/ RunPiCoinLoadTest(c)
                    /\ c.component = "Pi Coin stablecoin ledger")
          => ret'.err = "nil"]_vars

----------------------------------------------------------------------------
(* PiCoinStablecoinEnforcer                                                *)
(* (pi-ecosystem-protocol/src/core/pi_coin_stablecoin_enforcer.go), run as *)
(* the program "picoinenforcer".  eventLog is rejectLog.                   *)

\* if len(pcse.rejectLog) > 50
adaptThreshold == 50
\* if len(log) > 20
piCoinLearnThreshold == 20

NewPiCoinRLAgent ==
    <<"enforce $314,159 value", "reject external origins",
      "allow stablecoin transfers only">>

\* a call of EnforcePiCoinStablecoin(ctx, tx, origin, recipient) and the
\* answer of detectContamination ("high": output > 0.7): a call that passes
\* every check under each answer, and calls that differ from it in one or
\* two arguments with the model unavailable
PiCoinEnforcerCalls ==
    LET ok == [tx |-> "Pi Coin 314159 from mining", origin |-> "mining",
               recipient |-> "USDC"]
        args == {ok,
                 [ok EXCEPT !.tx = "Pi Coin from exchange",
                            !.origin = "bursa"],
                 [ok EXCEPT !.tx = "Pi Coin from exchange"],
                 [ok EXCEPT !.tx = "coin 314159 from rewards"],
                 [ok EXCEPT !.tx = "Pi Coin from mining",
                            !.recipient = "external"],
                 [ok EXCEPT !.recipient = "external USDC"],
                 [ok EXCEPT !.recipient = "bank"]}
        With(a, m) == [tx |-> a.tx, origin |-> a.origin,
                       recipient |-> a.recipient, model |-> m]
    IN  {With(a, "err") : a \in args} \cup {With(ok, m) : m \in ModelAnswers}

isStablecoinValueNoPi(tx) == Contains(tx, FormatFloat0(fixedValue))
\* isStablecoinValue: "%.0f" of piCoinValue (314159.0, the converter's
\* fixedValue) and "Pi" are in tx
isStablecoinValue(tx) ==
    Contains(tx, FormatFloat0(fixedValue)) /\ Contains(tx, "Pi")

\* the checks of EnforcePiCoinStablecoin in their order, for each call of
\* the model: the line appended to rejectLog ("" when none) and the results
PiCoinEnforcerText ==
    [c \in PiCoinEnforcerCalls |->
        LET Has(s, T) == \E t \in T : Contains(s, t)
            isContaminated ==
                IF c.model = "err"
                THEN Has(c.tx, {"exchange", "bursa", "external"})
                ELSE c.model = "high"
            Out(line, ok, err) == [line |-> line, ok |-> ok, err |-> err]
        IN  IF ~Has(c.origin, {"mining", "rewards", "p2p"})
            THEN Out("Rejected origin: " \o c.origin, FALSE,
                     "rejected: Pi Coin must originate from mining,"
                        \o " rewards, or P2P only")
            ELSE IF isContaminated
            THEN Out("Rejected contamination: " \o c.tx, FALSE, "nil")
            ELSE IF ~isStablecoinValue(c.tx)
            THEN Out("Rejected value: " \o c.tx, FALSE,
                     "rejected: Pi Coin value must be fixed at $314,159")
            ELSE IF Has(c.recipient, {"external", "bursa", "exchange"})
                    \/ ~Has(c.recipient, {"USDC", "USDT", "DAI", "fiat",
                                          "stablecoin"})
            THEN Out("Rejected transfer: " \o c.recipient, FALSE,
                     "rejected: Pi Coin cannot be transferred to external"
                        \o " or non-stablecoin")
            ELSE Out("", TRUE, "nil")]

\* EnforcePiCoinStablecoin, under pcse.mu
EnforcePiCoinStablecoin(c) ==
    /\ program = "picoinenforcer"
    /\ LET t == PiCoinEnforcerText[c]
       IN  ServeLearner(c, adaptThreshold + Slack,
                        IF t.line = "" THEN eventLog
                        ELSE eventLog (+) SetToBag({t.line}),
                        Returned("EnforcePiCoinStablecoin", t.ok, "", t.err),
                        t.ok, piCoinLearnThreshold)
    /\ UNCHANGED storeVars

\* PiCoinRLAgent.Learn(log), run by the goroutine of an accepted call
PiCoinLearn ==
    /\ program = "picoinenforcer"
    /\ LearnStep(piCoinLearnThreshold, "add quantum origin check",
                 NewPiCoinRLAgent)

\* SelfAdapt: the ticker fires, the loop body compares len(pcse.rejectLog)
\* with 50.  EvolvePiCoinRules is log.Println of the rules.
SelfAdapt ==
    /\ program = "picoinenforcer"
    /\ IF BagCardinality(eventLog) > adaptThreshold
       THEN /\ eventLog' = EmptyBag
            /\ lastTick' = "evolved"
       ELSE /\ UNCHANGED eventLog
            /\ lastTick' = "kept"
    /\ UNCHANGED <<program, gwVars, hammer, callsLeft, ret, ruleSet, goQueue,
                   storeVars>>

\* C22: with the model unavailable, a step of EnforcePiCoinStablecoin is
\* decided by the first check that fails, in the order origin (mining,
\* rewards, p2p), contamination of tx (exchange, bursa, external), value
\* ("314159" and "Pi" in tx), recipient (none of external, bursa, exchange
\* and one of USDC, USDT, DAI, fiat, stablecoin): (false, nil) for
\* contamination, (false, error) for the others, with one line added to the
\* reject log; (true, nil) and no line when every check passes.
C22_PiCoinEnforcement ==
    [][\A c \in PiCoinEnforcerCalls :
          (EnforcePiCoinStablecoin(c) /\ c.model = "err")
          => LET Has(s, T) == \E t \in T : Contains(s, t)
                 Rejected(line, withErr) ==
                     /\ ~ret'.bool
                     /\ (ret'.err # "nil") <=> withErr
                     /\ eventLog' = eventLog (+) SetToBag({line})
             IN  IF ~Has(c.origin, {"mining", "rewards", "p2p"})
                 THEN Rejected("Rejected origin: " \o c.origin, TRUE)
                 ELSE IF Has(c.tx, {"exchange", "bursa", "external"})
                 THEN Rejected("Rejected contamination: " \o c.tx, FALSE)
                 ELSE IF ~(Contains(c.tx, "314159") /\ Contains(c.tx, "Pi"))
                 THEN Rejected("Rejected value: " \o c.tx, TRUE)
                 ELSE IF Has(c.recipient, {"external", "bursa", "exchange"})
                         \/ ~Has(c.recipient, {"USDC", "USDT", "DAI", "fiat",
                                               "stablecoin"})
                 THEN Rejected("Rejected transfer: " \o c.recipient, TRUE)
                 ELSE /\ ret'.bool
                      /\ ret'.err = "nil"
                      /\ eventLog' = eventLog]_vars

\* with the model unavailable a call has been accepted after a text with
\* the value but without "Pi" was rejected for its value
C22_Witness ==
    /\ program = "picoinenforcer"
    /\ ret = Returned("EnforcePiCoinStablecoin", TRUE, "", "nil")
    /\ hammer.tx = "coin 314159 from rewards"
    /\ hammer.model = "err"
    /\ BagIn("Rejected value: coin 314159 from rewards", eventLog)

----------------------------------------------------------------------------
(* ZeroTrustValidator                                                      *)
(* (pi-ecosystem-protocol/src/core/zero_trust_validator.go), run as the    *)
(* program "validator".  eventLog is trustLog.                             *)

\* if len(ztv.trustLog) > 75
trustThreshold == 75
\* if len(log) > 30
validationLearnThreshold == 30

NewValidationRLAgent == <<"verify identity quantum", "reject breaches via AI">>

\* a call of ValidateTransaction(ctx, tx, identity) and the answer of
\* predictBreach ("high": output > 0.5).  quantumVerifyIdentity returns a
\* digest and a nil error for every identity, and the digest is used by
\* predictBreach only.
ValidatorCalls ==
    {[tx |-> t, model |-> "err"] :
        t \in {"stablecoin:USDC", "volatile:crypto", "blockchain:eth",
               "USDC token", "volatile USDT", "payment"}}
    \cup {[tx |-> "stablecoin:USDC", model |-> m] : m \in ModelAnswers}
    \cup {[tx |-> "payment", model |-> "low"]}

isStablecoinTrustedAny(tx) == TRUE
isStablecoinTrustedByLog(tx) == BagCardinality(eventLog) > 0
\* isStablecoinTrusted
isStablecoinTrusted(tx) ==
    \E sc \in {"USDC", "USDT", "DAI"} :
        Contains(tx, sc) /\ ~Contains(tx, "volatile")

\* ValidateTransaction, under ztv.mu
ValidateTransaction(c) ==
    /\ program = "validator"
    /\ LET isBreach == IF c.model = "err" THEN ContainsForbidden(c.tx)
                       ELSE c.model = "high"
           valid == ~isBreach /\ isStablecoinTrusted(c.tx)
       IN  ServeLearner(c, trustThreshold + Slack,
                        IF valid THEN eventLog
                        ELSE eventLog (+) SetToBag({c.tx}),
                        Returned("ValidateTransaction", valid, "", "nil"),
                        valid, validationLearnThreshold)
    /\ UNCHANGED storeVars

\* ValidationRLAgent.Learn(log), run by the goroutine of a valid call
ValidationLearn ==
    /\ program = "validator"
    /\ LearnStep(validationLearnThreshold, "add multi-factor trust",
                 NewValidationRLAgent)

\* SelfAdapt of the validator: the ticker fires, the loop body compares
\* len(ztv.trustLog) with 75.  EvolveValidation is log.Println of the rules.
ValidatorSelfAdapt ==
    /\ program = "validator"
    /\ IF BagCardinality(eventLog) > trustThreshold
       THEN /\ eventLog' = EmptyBag
            /\ lastTick' = "evolved"
       ELSE /\ UNCHANGED eventLog
            /\ lastTick' = "kept"
    /\ UNCHANGED <<program, gwVars, hammer, callsLeft, ret, ruleSet, goQueue,
                   storeVars>>

\* C23: a step of ValidateTransaction returns a nil error; with the model
\* unavailable it returns true exactly when tx contains one of USDC, USDT,
\* DAI and none of volatile, crypto, blockchain, defi, token; a false
\* result adds exactly one entry, tx, to the trust log and a true result
\* leaves the trust log as it is.
C23_ValidateTransaction ==
    [][\A c \in ValidatorCalls :
          ValidateTransaction(c)
          => /\ ret'.err = "nil"
             /\ c.model = "err"
                => (ret'.bool <=>
                      /\ \E s \in {"USDC", "USDT", "DAI"} : Contains(c.tx, s)
                      /\ ~\E t \in {"volatile", "crypto", "blockchain",
                                    "defi", "token"} : Contains(c.tx, t))
             /\ eventLog' = IF ret'.bool THEN eventLog
                            ELSE eventLog (+) SetToBag({c.tx})]_vars

\* with the model unavailable a transaction has been validated after a
\* volatile one was rejected and logged
C23_Witness ==
    /\ program = "validator"
    /\ ret = Returned("ValidateTransaction", TRUE, "", "nil")
    /\ hammer.model = "err"
    /\ BagIn("volatile:crypto", eventLog)
    /\ callsLeft = 0

----------------------------------------------------------------------------
(* The fallbacks of the services                                           *)

\* C24: when the inference call of an operation fails, the operation goes
\* on with its fallback and returns what the fallback dictates, never the
\* error of the inference call: the ledger takes the entry as valid and
\* adds it; the backup takes priority 0.5 and writes the file; the enforcer
\* and the validator decide by the five tokens; the converter succeeds
\* exactly for the amount 314159; the logger takes the event as not
\* anomalous; the issuance engine issues an amount in 1..100; the load
\* tester takes capacity 100; the tester runs the default test.
C24_FallbackDecides ==
    [][/\ \A c \in LedgerCalls :
             (AddEntry(c) /\ c.model = "err" /\ ~ContainsForbidden(c.data))
             => /\ ret'.err = "nil"
                /\ Len(entries') = Len(entries) + 1
       /\ \A c \in BackupCalls :
             (BackupData(c) /\ c.model = "err" /\ ~ContainsForbidden(c.data))
             => /\ ret'.err = IF c.write THEN "nil" ELSE "write error"
                /\ c.write => DOMAIN backupFiles' # {}
       /\ \A c \in EnforcerCalls :
             (EnforceTransaction(c) /\ c.model = "err")
             => /\ ret'.err = "nil"
                /\ ret'.bool <=> /\ ~EnforcerText[c.tx].fallback
                                 /\ EnforcerText[c.tx].stablecoin
       /\ \A c \in ValidatorCalls :
             (ValidateTransaction(c) /\ c.model = "err")
             => /\ ret'.err = "nil"
                /\ ContainsForbidden(c.tx) => ~ret'.bool
       /\ \A c \in ConverterCalls :
             (ConvertPiCoin(c) /\ c.model = "err"
                /\ ConverterText[c].allowed)
             => ret'.err = IF c.amount = fixedValue THEN "nil"
                           ELSE "conversion failed: invalid Pi Coin amount"
                                   \o " or rules"
       /\ \A c \in LoggerCalls :
             (LogEvent(c) /\ c.model = "err" /\ ~ContainsForbidden(c.event))
             => ret'.err = IF c.write THEN "nil" ELSE "write error"
       /\ \A c \in IssuanceCalls :
             (IssueStablecoin(c) /\ c.model = "err"
                /\ IssuanceText[c].valid /\ IssuanceText[c].type # "")
             => /\ c.amount \in 1..FallbackMax
                /\ ret'.err = "nil"
                /\ stablecoinPool'[IssuanceText[c].type]
                      = stablecoinPool[IssuanceText[c].type] - c.amount
       /\ \A c \in LoadCalls :
             (RunLoadTest(c) /\ c.model = "err"
                /\ ~ContainsForbidden(c.component))
             => ret'.err = IF c.load > fallbackCapacity
                           THEN "load test failed: exceeded capacity"
                           ELSE "nil"
       /\ \A c \in TesterCalls :
             (RunHyperTest(c) /\ c.model = "err"
                /\ ~ContainsForbidden(c.component))
             => ret'.err = "test failed: default test"]_vars

\* the ledger has added an entry on a call of AddEntry whose inference
\* call failed, and nothing else was called
C24_Witness ==
    /\ program = "ledger"
    /\ hammer = [data |-> "stablecoin tx: USDC 100", model |-> "err"]
    /\ callsLeft = MaxCalls
    /\ Len(entries) > 0
    /\ ret = Returned("AddEntry", FALSE, "", "nil")

----------------------------------------------------------------------------
(* StablecoinIssuanceEngine (unnamed/part_008) called by several           *)
(* goroutines at once, statement by statement: the program                 *)
(* "issuancecallers".                                                      *)

\* the goroutines that call IssueStablecoin of one engine
IssuanceCallers == {"g1", "g2", "g3"}

\* the calls they make: one that is served, one that asks for more than the
\* pool ever holds, one that is refused for its text
ConcurrentCalls ==
    {c \in IssuanceCalls :
        \/ c.model = "ok" /\ c.request = "issue stablecoin USDC 50"
              /\ c.amount >= 400
        \/ c.request = "issue stablecoin 10"}

\* sie.mu with nobody in it, each caller outside IssueStablecoin with
\* MaxCalls calls to make
NewIssuanceCallers ==
    [mu |-> "none",
     pc |-> [p \in IssuanceCallers |-> "idle"],
     call |-> [p \in IssuanceCallers |-> "none"],
     left |-> [p \in IssuanceCallers |-> MaxCalls]]

LockNeverBlocks(holder) == TRUE
\* sync.Mutex.Lock returns when no goroutine holds the mutex
CanLock(holder) == holder = "none"

\* line 54: sie.mu.Lock(), with the deferred Unlock of line 55 pending
IssueLock(p, c) ==
    /\ program = "issuancecallers"
    /\ fields.pc[p] = "idle"
    /\ fields.left[p] > 0
    /\ CanLock(fields.mu)
    /\ fields' = [fields EXCEPT !.mu = p, !.pc[p] = "locked", !.call[p] = c,
                                !.left[p] = @ - 1]
    /\ UNCHANGED <<program, gwVars, hammer, callsLeft, ret, eventLog, ruleSet,
                   goQueue, lastTick, entries, stablecoinPool, backupFiles,
                   clock>>

\* lines 58-79: the tests of the request and of the pool; a return runs the
\* deferred Unlock
IssueCheck(p) ==
    /\ program = "issuancecallers"
    /\ fields.pc[p] = "locked"
    /\ LET c == fields.call[p]
           t == IssuanceText[c]
           Return(log, e) ==
               /\ eventLog' = log
               /\ ret' = Returned("IssueStablecoin", FALSE, "", e)
               /\ fields' = [fields EXCEPT !.mu = "none", !.pc[p] = "idle",
                                           !.call[p] = "none"]
       IN  IF ~t.valid
           THEN Return(eventLog,
                       "oracle validation failed: non-stablecoin request")
           ELSE IF t.type = ""
           THEN Return(eventLog (+) SetToBag({"Rejected: No stablecoin type"}),
                       "rejected: only stablecoin issuance allowed")
           ELSE IF InsufficientPool(stablecoinPool, t.type, c.amount)
           THEN Return(eventLog, "insufficient pool")
           ELSE /\ fields' = [fields EXCEPT !.pc[p] = "checked"]
                /\ UNCHANGED <<eventLog, ret>>
    /\ UNCHANGED <<program, gwVars, hammer, callsLeft, ruleSet, goQueue,
                   lastTick, entries, stablecoinPool, backupFiles, clock>>

\* lines 80-93: the debit, the log line, the goroutine of Learn and the
\* return, which runs the deferred Unlock
IssueDebit(p) ==
    /\ program = "issuancecallers"
    /\ fields.pc[p] = "checked"
    /\ Len(goQueue) < MaxGoroutines
    /\ LET c == fields.call[p]
           t == IssuanceText[c]
           log == eventLog (+) SetToBag({t.issued})
       IN  /\ stablecoinPool' =
                  [stablecoinPool EXCEPT ![t.type] = @ - c.amount]
           /\ eventLog' = log
           /\ goQueue' = Append(goQueue,
                                IF BagCardinality(log) > issuanceLearnThreshold
                                THEN issuanceLearnThreshold + 1 ELSE 0)
           /\ ret' = Returned("IssueStablecoin", FALSE, t.confirmation, "nil")
    /\ fields' = [fields EXCEPT !.mu = "none", !.pc[p] = "idle",
                                !.call[p] = "none"]
    /\ UNCHANGED <<program, gwVars, hammer, callsLeft, ruleSet, lastTick,
                   entries, backupFiles, clock>>

----------------------------------------------------------------------------
(* AutonomousGraphQLServer (unnamed/part_005), run as the program          *)
(* "graphql".  eventLog is queryLog.  The resolvers run in the goroutines  *)
(* of the HTTP server, statement by statement: neither the resolver nor    *)
(* SelfTune takes ags.mu.                                                  *)

\* if len(ags.queryLog) > 100
tuneThreshold == 100

\* the goroutines that run the resolver: r1 serves the load generator
Resolvers == {"r1", "r2"}

\* Query_stablecoinData, lines 53-68, for a filter with the asset c.asset:
\* the zero-trust test, optimizeQuery with its fallback, and the read of
\* r.server.queryLog by append
Query_stablecoinData(p, c) ==
    /\ program = "graphql"
    /\ fields.pc[p] = "idle"
    /\ (p = "r1" /\ c = hammer) \/ callsLeft > 0
    /\ callsLeft' = IF p = "r1" /\ c = hammer THEN callsLeft
                    ELSE callsLeft - 1
    /\ BagCardinality(eventLog) < tuneThreshold + Slack + 1
    /\ IF \E t \in {"volatile", "crypto", "blockchain"} : Contains(c.asset, t)
       THEN /\ ret' = Returned("Query_stablecoinData", FALSE, "",
                               "rejected: only stablecoin queries allowed")
            /\ UNCHANGED fields
       ELSE /\ fields' =
                  [fields EXCEPT
                     !.pc[p] = "read",
                     !.seen[p] = eventLog,
                     !.optimized[p] =
                        IF c.model = "err"
                        THEN "optimized: &{" \o c.asset \o "}"
                        ELSE "AI-optimized: [0.9]"]
            /\ UNCHANGED ret
    /\ UNCHANGED <<program, gwVars, hammer, eventLog, ruleSet, goQueue,
                   lastTick, entries, stablecoinPool, backupFiles, clock>>

\* Query_stablecoinData, lines 71-73: the assignment of the appended slice
\* to r.server.queryLog, and the return of the data
Query_stablecoinDataStore(p) ==
    /\ program = "graphql"
    /\ fields.pc[p] = "read"
    /\ eventLog' = fields.seen[p] (+) SetToBag({fields.optimized[p]})
    /\ ret' = Returned("Query_stablecoinData", TRUE, "USDC", "nil")
    /\ fields' = [fields EXCEPT !.pc[p] = "idle", !.seen[p] = EmptyBag,
                                !.optimized[p] = ""]
    /\ UNCHANGED <<program, gwVars, hammer, callsLeft, ruleSet, goQueue,
                   lastTick, entries, stablecoinPool, backupFiles, clock>>

\* SelfTune, lines 107-108: the ticker fires, the loop body compares
\* len(ags.queryLog) with 100
SelfTune ==
    /\ program = "graphql"
    /\ lastTick # "counted"
    /\ lastTick' = IF BagCardinality(eventLog) > tuneThreshold
                   THEN "counted" ELSE "kept"
    /\ UNCHANGED <<program, gwVars, hammer, callsLeft, ret, ruleSet, goQueue,
                   eventLog, storeVars>>

\* SelfTune, lines 109-111, after the length was above 100:
\* rlAgent.TunePerformance() is log.Println of the rules, then
\* ags.queryLog = []string{}
SelfTuneReset ==
    /\ program = "graphql"
    /\ lastTick = "counted"
    /\ eventLog' = EmptyBag
    /\ lastTick' = "evolved"
    /\ UNCHANGED <<program, gwVars, hammer, callsLeft, ret, ruleSet, goQueue,
                   storeVars>>

\* C27: the query log is updated by one resolver at a time and not between
\* the length check of SelfTune and its reset: the assignment of a resolver
\* adds its one line to the query log as it is at that moment, and while
\* the tick is between check and reset the query log stays as it is.
C27_QueryLogUnderMutex ==
    [][(program = "graphql")
       => /\ \A p \in Resolvers :
                Query_stablecoinDataStore(p)
                => eventLog' = eventLog (+) SetToBag({fields.optimized[p]})
          /\ lastTick = "counted"
             => (eventLog' = eventLog \/ lastTick' = "evolved")]_vars

----------------------------------------------------------------------------
(* IssuanceOracle and RejectionPurger (smart_contracts/issuance_oracle.sol) *)
(* and GovernanceContract (smart_contracts/governance_contract.sol), with  *)
(* the ChainlinkClient they inherit: the programs "issuanceoracle",        *)
(* "purger" and "governance".  The three are built alike: a transaction    *)
(* calls the triggering function, which sends an oracle request and reads  *)
(* the predictor of the address it was given; the oracle answers in a      *)
(* later transaction.  A transaction that reverts leaves the storage as it *)
(* was.  eventLog is the chain's record of the triggering transactions,    *)
(* ruleSet the rules of rlAgent.  A decision is a number: the predicted    *)
(* amount, or 1 for true and 0 for false.                                  *)

\* for each contract: its storage after the constructor (pending and
\* requestCount are s_pendingRequests and s_requestCount of ChainlinkClient,
\* timestamp is block.timestamp counted from the deployment, count is
\* failureCount or inefficiencyCount of rlAgent, total is totalIssued,
\* totalPurged or totalApproved), the rules of its rlAgent, the count above
\* which it evolves and the rule it adds then, the messages of its requires,
\* and the transactions of the model: msg.sender, the asset or proposal,
\* and the issuer, purger or proposer.
OracleContract ==
    LET storage ==
            [predictors |-> [a \in Addresses |->
                               [decision |-> 0, score |-> 0]],
             authorizedIssuers |-> {"0xOwner"},
             records |-> {},
             volatileAssets |-> {},
             proposals |-> <<>>,
             total |-> 0,
             count |-> 0,
             owner |-> "0xOwner",
             oracle |-> "0xOracle",
             pending |-> <<>>,
             requestCount |-> 1,
             timestamp |-> 0]
        Calls(senders, texts) ==
            {[sender |-> s, text |-> t, party |-> p] :
                s \in senders, t \in texts, p \in {"0xUser", "0xOracle"}}
    IN  [issuanceoracle |->
            [storage |-> storage,
             rules |-> <<"predict amount via AI", "use quantum hash">>,
             evolveAbove |-> 5,
             newRule |-> "increase AI confidence threshold",
             trigger |-> "issueStablecoin",
             refused |-> "AI predicted zero issuance",
             duplicate |-> "Duplicate issuance rejected",
             answers |-> {0, 50},
             calls |-> Calls({"0xOwner", "0xUser"}, {"USDC", "volatile coin"})],
         purger |->
            [storage |-> storage,
             rules |-> <<"detect via AI", "quantum log purge">>,
             evolveAbove |-> 3,
             newRule |-> "enhance AI detection threshold",
             trigger |-> "purgeVolatileAsset",
             refused |-> "AI decided not to purge",
             duplicate |-> "Asset already purged",
             answers |-> {0, 1},
             calls |-> Calls({"0xUser"}, {"volatile coin", "USDC"})],
         governance |->
            [storage |-> storage,
             rules |-> <<"AI approve proposals", "quantum secure votes">>,
             evolveAbove |-> 2,
             newRule |-> "increase AI approval threshold",
             trigger |-> "proposeGovernance",
             refused |-> "",
             duplicate |-> "Proposal already processed",
             answers |-> {0, 1},
             calls |-> Calls({"0xUser"},
                             {"stablecoin fees", "crypto listing"})]]

getAIDecisionAnswered(party) == 1
\* getAIPrediction, getAIPurgeDecision, getAIApproval: what the triggering
\* call gets back is the predictor of the address as it is when the request
\* is sent
getAIDecision(party) == fields.predictors[party].decision

CounterReaches(count, above) == count >= above
\* if (rlAgent.failureCount > 5), if (rlAgent.inefficiencyCount > 3),
\* if (rlAgent.failureCount > 2): the test before selfEvolve
CounterExceeds(count, above) == count > above

TriggerRevertUngated(c) == ""
\* the message of the first require of the triggering call that fails,
\* those of its modifiers first; "" when none fails.  The key of a record
\* is abi.encodePacked of the arguments, of which keccak256 is taken.
TriggerRevert(c) ==
    LET k == OracleContract[program]
        d == getAIDecision(c.party)
        key == c.text \o (IF program = "issuanceoracle" THEN Itoa(d) ELSE "")
                  \o c.party \o Itoa(fields.timestamp)
    IN  IF /\ program = "issuanceoracle"
           /\ c.sender \notin fields.authorizedIssuers
        THEN "Only authorized issuer"
        ELSE IF program = "issuanceoracle" /\ c.text \notin {"USDC", "USDT"}
        THEN "Only stablecoin issuance allowed"
        ELSE IF program = "purger" /\ c.text \in {"USDC", "USDT"}
        THEN "Cannot purge stablecoin"
        ELSE IF program = "purger" /\ ~ContainsForbidden(c.text)
        THEN "Only volatile assets can be purged"
        ELSE IF program = "governance"
                /\ ~\E s \in {"stablecoin", "USDC", "USDT"} :
                       Contains(c.text, s)
        THEN "Only stablecoin governance allowed"
        ELSE IF program # "purger" /\ ContainsForbidden(c.text)
        THEN "Rejected: Volatile or blockchain " \o
                (IF program = "governance" THEN "proposal" ELSE "asset")
        ELSE IF program # "governance" /\ d = 0
        THEN k.refused
        ELSE IF d # 0 /\ key \in fields.records
        THEN k.duplicate
        ELSE ""

\* a transaction of c.sender calls issueStablecoin(asset, issuer),
\* purgeVolatileAsset(asset, purger) or proposeGovernance(proposal,
\* proposer), which returns the amount, true, or proposalCount.  Its line
\* in eventLog says "done" when it has emitted IssuanceCompleted,
\* AssetPurged or ProposalApproved.
TriggerTx(c) ==
    /\ program \in DOMAIN OracleContract
    /\ BagCardinality(eventLog) < MaxTx
    /\ c = hammer \/ callsLeft > 0
    /\ callsLeft' = IF c = hammer THEN callsLeft ELSE callsLeft - 1
    /\ LET k == OracleContract[program]
           why == TriggerRevert(c)
           d == getAIDecision(c.party)
           id == fields.requestCount
           evolve == d # 0 /\ CounterExceeds(fields.count, k.evolveAbove)
           key == c.text
                     \o (IF program = "issuanceoracle" THEN Itoa(d) ELSE "")
                     \o c.party \o Itoa(fields.timestamp)
           Line(status) == status \o ": " \o c.text \o " " \o c.party
       IN  IF why # ""
           THEN /\ eventLog' = eventLog (+) SetToBag({Line("reverted")})
                /\ ret' = Returned(k.trigger, FALSE, "", why)
                /\ UNCHANGED <<fields, ruleSet>>
           ELSE /\ evolve => Len(ruleSet) < Len(k.rules) + MaxNewRules
                /\ eventLog' = eventLog (+)
                      SetToBag({Line(IF d # 0 THEN "done" ELSE "proposed")})
                /\ ret' = Returned(k.trigger, program = "purger",
                                   IF program = "issuanceoracle" THEN Itoa(d)
                                   ELSE IF program = "governance"
                                   THEN Itoa(Len(fields.proposals) + 1)
                                   ELSE "",
                                   "nil")
                /\ fields' =
                     [fields EXCEPT
                        !.pending = [i \in DOMAIN fields.pending \cup {id} |->
                                       IF i = id THEN fields.oracle
                                       ELSE fields.pending[i]],
                        !.requestCount = id + 1,
                        !.proposals = IF program = "governance"
                                      THEN Append(@, c.text) ELSE @,
                        !.records = IF d # 0 THEN @ \cup {key} ELSE @,
                        !.volatileAssets = IF program = "purger"
                                           THEN @ \cup {c.text} ELSE @,
                        !.total = IF program = "issuanceoracle" THEN @ + d
                                  ELSE IF d # 0 THEN @ + 1 ELSE @,
                        !.count = IF evolve THEN 0 ELSE @]
                /\ ruleSet' = IF evolve THEN Append(ruleSet, k.newRule)
                              ELSE ruleSet
    /\ UNCHANGED <<program, gwVars, hammer, goQueue, lastTick, entries,
                   stablecoinPool, backupFiles, clock>>

\* a transaction of sender calls fulfillIssuancePrediction,
\* fulfillPurgeDecision or fulfillGovernanceDecision with the request id,
\* the decision v and a score: recordChainlinkFulfillment lets only the
\* oracle of a pending request through, and deletes the request
FulfillTx(sender, id, v) ==
    /\ program \in DOMAIN OracleContract
    /\ IF id \in DOMAIN fields.pending /\ fields.pending[id] = sender
       THEN /\ fields' =
                 [fields EXCEPT
                    !.pending = [i \in DOMAIN fields.pending \ {id} |->
                                   fields.pending[i]],
                    !.predictors[sender] = [decision |-> v, score |-> 80]]
            /\ ret' = Returned("fulfill", TRUE, "", "nil")
       ELSE /\ ret' = Returned("fulfill", FALSE, "",
                               "Source must be the oracle of the request")
            /\ UNCHANGED fields
    /\ UNCHANGED <<program, gwVars, hammer, callsLeft, eventLog, ruleSet,
                   goQueue, lastTick, entries, stablecoinPool, backupFiles,
                   clock>>

\* a transaction of sender calls reportFailure() (onlyAuthorizedIssuer in
\* IssuanceOracle, onlyOwner in GovernanceContract) or reportInefficiency()
\* (onlyOwner)
ReportTx(sender) ==
    /\ program \in DOMAIN OracleContract
    /\ fields.count < OracleContract[program].evolveAbove + Slack
    /\ IF \/ program = "issuanceoracle" /\ sender \in fields.authorizedIssuers
          \/ program # "issuanceoracle" /\ sender = fields.owner
       THEN /\ fields' = [fields EXCEPT !.count = @ + 1]
            /\ ret' = Returned("report", TRUE, "", "nil")
       ELSE /\ ret' = Returned("report", FALSE, "",
                               IF program = "issuanceoracle"
                               THEN "Only authorized issuer"
                               ELSE "Only owner")
            /\ UNCHANGED fields
    /\ UNCHANGED <<program, gwVars, hammer, callsLeft, eventLog, ruleSet,
                   goQueue, lastTick, entries, stablecoinPool, backupFiles,
                   clock>>

\* a transaction of sender calls addAuthorizedIssuer(issuer) of
\* IssuanceOracle
AddAuthorizedIssuerTx(sender, issuer) ==
    /\ program = "issuanceoracle"
    /\ LET why == IF sender # fields.owner THEN "Only owner"
                  ELSE IF ~(fields.predictors[issuer].score > 70)
                  THEN "Rejected: Low AI confidence for issuer"
                  ELSE ""
       IN  /\ ret' = Returned("addAuthorizedIssuer", why = "", "",
                              IF why = "" THEN "nil" ELSE why)
           /\ fields' = IF why # "" THEN fields
                        ELSE [fields EXCEPT !.authorizedIssuers =
                                               @ \cup {issuer}]
    /\ UNCHANGED <<program, gwVars, hammer, callsLeft, eventLog, ruleSet,
                   goQueue, lastTick, entries, stablecoinPool, backupFiles,
                   clock>>

----------------------------------------------------------------------------
C29_CallbackWritesCallersRecord ==
    [][(/\ program \in DOMAIN OracleContract
        /\ ret'.op = "fulfill" /\ ret'.err = "nil"
        /\ DOMAIN fields'.pending # DOMAIN fields.pending)
       => \A a \in Addresses :
             (\A c \in OracleContract[program].calls :
                 \A status \in {"done", "proposed"} :
                    CopiesIn(status \o ": " \o c.text \o " " \o c.party,
                             eventLog) > 0 => c.party = a)
             => \A b \in Addresses \ {a} :
                   fields'.predictors[b] = fields.predictors[b]]_vars

\* C30: in IssuanceOracle, RejectionPurger and PiCoinStablecoinContract no
\* request is ever pending and no callback has written a record, nothing
\* has been issued, purged or enforced, and no transaction has emitted
\* IssuanceCompleted, AssetPurged or PiCoinEnforced: every triggering
\* transaction that passed the modifiers was refused for the decision it
\* read, and its request went with it.
C30_NothingEverPasses ==
    /\ (program \in {"issuanceoracle", "purger"}) =>
          /\ fields.pending = <<>> /\ fields.requestCount = 1
          /\ \A a \in Addresses : fields.predictors[a].decision = 0
                                   /\ fields.predictors[a].score = 0
          /\ fields.total = 0 /\ fields.records = {}
          /\ \A line \in BagToSet(eventLog) : HasPrefix(line, "reverted")
          /\ ret.op = OracleContract[program].trigger => ret.err # "nil"
    /\ (program = "contract") =>
          /\ fields.pending = <<>> /\ fields.requestCount = 1
          /\ \A a \in Addresses : ~fields.validators[a].isValidStablecoin
          /\ fields.totalEnforced = 0 /\ fields.piCoinRecords = {}
          /\ \A line \in BagToSet(eventLog) : HasPrefix(line, "reverted")
          /\ ret.op = "enforcePiCoinStablecoin" => ret.err # "nil"

\* the owner of an IssuanceOracle, its authorized issuer, has asked for an
\* issuance of USDC twice, for 0xUser and for the oracle, and been refused
\* for the amount both times
C30_Witness ==
    /\ program = "issuanceoracle"
    /\ CopiesIn("reverted: USDC 0xUser", eventLog) > 0
    /\ CopiesIn("reverted: USDC 0xOracle", eventLog) > 0
    /\ ret.op = "issueStablecoin"
    /\ ret.err = "AI predicted zero issuance"
    /\ fields.total = 0

----------------------------------------------------------------------------
(* PiCoinRegulatoryComplianceEnforcer                                      *)
(* (core/pi_coin_regulatory_compliance_enforcer.go), IOSCOComplianceEnforcer *)
(* (core/iosco_compliance_enforcer.go) and ILOComplianceEnforcer           *)
(* (unnamed/part_008, lines 190-369), run as the programs "compliance",    *)
(* "iosco" and "ilo".  The three files differ in their tables and texts    *)
(* only.  eventLog is complianceLog.                                       *)

\* for each enforcer: its table of standards and the flags of it that the
\* operation tests, the rules of its rlAgent and the rule Learn adds, the
\* tokens of the fallback and of the additional check, its texts, and the
\* calls of the model: tx, jurisdiction, userKYC (of the global enforcer)
\* and the answer of the model ("high": output above the threshold)
ComplianceEnforcer ==
    LET Calls(txs, j) ==
            {[tx |-> t, jurisdiction |-> j, kyc |-> TRUE, model |-> "err"] :
                t \in {txs[i] : i \in DOMAIN txs}}
            \cup {[tx |-> txs[1], jurisdiction |-> j, kyc |-> TRUE,
                   model |-> m] : m \in {"high", "low"}}
    IN  [compliance |->
            [standards |-> [f \in {"IMF", "BIS", "FATF", "FINMA", "SEC"}
                              |-> TRUE],
             tested |-> {},
             rules |-> <<"enforce IMF standards", "validate KYC globally",
                         "audit with quantum">>,
             learned |-> "add BIS reserve checks",
             learnAbove |-> 20,
             adaptAbove |-> 50,
             fallback |-> {"$314,159", "Pi"},
             needs |-> {"$314,159", "reserve", "transparent"},
             excludes |-> {},
             op |-> "EnforcePiCoinRegulatoryCompliance",
             rejected |-> "rejected: non-compliant jurisdiction or missing KYC",
             breach |->
                "breach: Pi Coin must comply with global stablecoin standards",
             calls |->
                Calls(<<"Pi Coin $314,159 reserve-backed",
                        "Pi Coin transparent tx",
                        "Pi Coin $314,159 reserve transparent">>, "IMF")
                \cup {[tx |-> "Pi Coin non-compliant", jurisdiction |-> "SEC",
                       kyc |-> FALSE, model |-> "err"],
                      [tx |-> "Pi Coin $314,159 reserve transparent",
                       jurisdiction |-> "ESMA", kyc |-> TRUE,
                       model |-> "high"]}],
         iosco |->
            [standards |-> [f \in {"non-security", "transparency",
                                   "market-integrity"} |-> TRUE],
             tested |-> {"non-security", "transparency"},
             rules |-> <<"enforce non-security status",
                         "validate transparency", "audit with quantum">>,
             learned |-> "add market-integrity checks",
             learnAbove |-> 20,
             adaptAbove |-> 50,
             fallback |-> {"non-security", "transparent"},
             needs |-> {"non-security", "utility"},
             excludes |-> {"investment"},
             op |-> "EnforceIOSCOCompliance",
             rejected |-> "rejected: non-compliant with IOSCO standards",
             breach |-> "breach: Pi Coin must be non-security under IOSCO",
             calls |->
                Calls(<<"Pi Coin investment contract",
                        "Pi Coin transparent tx",
                        "Pi Coin non-security utility",
                        "Pi Coin non-security transparent utility">>,
                      "IOSCO")],
         ilo |->
            [standards |-> [f \in {"no-forced-labor", "fair-wages",
                                   "child-labor-free"} |-> TRUE],
             tested |-> {"no-forced-labor", "fair-wages"},
             rules |-> <<"enforce no-forced-labor", "validate fair-wages",
                         "audit with quantum">>,
             learned |-> "add child-labor-free checks",
             learnAbove |-> 20,
             adaptAbove |-> 50,
             fallback |-> {"fair-labor", "no-forced"},
             needs |-> {"fair-labor", "ethical"},
             excludes |-> {"forced"},
             op |-> "EnforceILOCompliance",
             rejected |-> "rejected: non-compliant with ILO standards",
             breach |->
                "breach: Pi Coin ecosystem must comply with ILO fair labor",
             calls |->
                Calls(<<"Pi Coin fair-labor ethical",
                        "Pi Coin forced labor",
                        "Pi Coin no-forced fair-wages",
                        "Pi Coin fair-labor no-forced ethical">>, "ILO")]]

standardsNotTested(c) == TRUE
\* the zero-trust test of the operation: !regulations[jurisdiction] ||
\* !userKYC, !ioscoStandards["non-security"] ||
\* !ioscoStandards["transparency"], !iloStandards["no-forced-labor"] ||
\* !iloStandards["fair-wages"]; a key that a map does not hold reads false
standardsHold(c) ==
    LET k == ComplianceEnforcer[program]
        flag(f) == f \in DOMAIN k.standards /\ k.standards[f]
    IN  IF program = "compliance" THEN flag(c.jurisdiction) /\ c.kyc
        ELSE \A f \in k.tested : flag(f)

isStandardCompliantNoExclusion(tx) ==
    \A t \in ComplianceEnforcer[program].needs : Contains(tx, t)
\* isGlobalStablecoinCompliant, isIOSCONonSecurityCompliant,
\* isILOFairLaborCompliant
isStandardCompliant(tx) ==
    LET k == ComplianceEnforcer[program]
    IN  /\ \A t \in k.needs : Contains(tx, t)
        /\ \A t \in k.excludes : ~Contains(tx, t)

rejectionPrefixes == {"breach", "rejected", "non-compliant"}
\* SelfAdapt counts the entries of complianceLog for which
\* strings.HasPrefix(entry, "breach") || strings.HasPrefix(entry, "rejected")
breachPrefixes == {"breach", "rejected"}

\* the operation, under mu: the line it appends to complianceLog ("" for
\* none) and what it returns
ComplianceResult(c) ==
    LET k == ComplianceEnforcer[program]
        isCompliant == IF c.model = "err"
                       THEN \A t \in k.fallback : Contains(c.tx, t)
                       ELSE c.model = "high"
    IN  IF ~standardsHold(c)
        THEN [line |-> IF program = "compliance"
                       THEN "rejected: " \o c.jurisdiction
                       ELSE IF program = "iosco"
                       THEN "rejected: non-compliant IOSCO"
                       ELSE "rejected: non-compliant ILO",
              ok |-> FALSE, err |-> k.rejected]
        ELSE IF ~isCompliant
        THEN [line |-> "non-compliant: " \o c.tx, ok |-> FALSE, err |-> "nil"]
        ELSE IF ~isStandardCompliant(c.tx)
        THEN [line |-> "breach: " \o c.tx, ok |-> FALSE, err |-> k.breach]
        ELSE [line |-> "", ok |-> TRUE, err |-> "nil"]

\* EnforcePiCoinRegulatoryCompliance, EnforceIOSCOCompliance,
\* EnforceILOCompliance
EnforceCompliance(c) ==
    /\ program \in DOMAIN ComplianceEnforcer
    /\ LET k == ComplianceEnforcer[program]
           r == ComplianceResult(c)
       IN  ServeLearner(c, k.adaptAbove + Slack,
                        IF r.line = "" THEN eventLog
                        ELSE eventLog (+) SetToBag({r.line}),
                        Returned(k.op, r.ok, "", r.err),
                        r.ok, k.learnAbove)
    /\ UNCHANGED storeVars

\* Learn(log) of the rlAgent, run by the goroutine of an accepted call
ComplianceLearn ==
    /\ program \in DOMAIN ComplianceEnforcer
    /\ LET k == ComplianceEnforcer[program]
       IN  LearnStep(k.learnAbove, k.learned, k.rules)

\* SelfAdapt: the ticker fires, the loop body counts the breaches of
\* complianceLog and compares them with 50.  EvolveComplianceRules,
\* EvolveIOSCOComplianceRules, EvolveILOComplianceRules are log.Println of
\* the rules.
ComplianceSelfAdapt ==
    /\ program \in DOMAIN ComplianceEnforcer
    /\ LET breaches == CountPrefixed(eventLog, breachPrefixes)
       IN  IF breaches > ComplianceEnforcer[program].adaptAbove
           THEN /\ eventLog' = EmptyBag
                /\ lastTick' = "evolved"
           ELSE /\ UNCHANGED eventLog
                /\ lastTick' = "kept"
    /\ UNCHANGED <<program, gwVars, hammer, callsLeft, ret, ruleSet, goQueue,
                   storeVars>>

----------------------------------------------------------------------------
\* C32 as claimed: a tick of SelfAdapt that finds more than 50 rejections of
\* any kind in the compliance log, those of the score ("non-compliant")
\* among them, evolves the rules and resets the log.
C32_EveryRejectionCounts ==
    [][ComplianceSelfAdapt
       => (CountPrefixed(eventLog,
                         {"rejected", "non-compliant", "breach"}) > 50
           => lastTick' = "evolved" /\ eventLog' = EmptyBag)]_vars

\* C32: a rejection for the standards logs a line that begins "rejected",
\* a rejection by the score one that begins "non-compliant", a rejection by
\* the additional check one that begins "breach"; a tick of SelfAdapt
\* evolves the rules and resets the log exactly when more than 50 lines of
\* the log begin with "breach" or "rejected", and leaves the log as it is
\* otherwise.
C32_BreachesAndRejectedCount ==
    [][/\ \A p \in DOMAIN ComplianceEnforcer :
          \A c \in ComplianceEnforcer[p].calls :
             (program = p /\ EnforceCompliance(c) /\ ~ret'.bool) =>
                LET line == ComplianceResult(c).line
                IN  /\ eventLog' = eventLog (+) SetToBag({line})
                    /\ \E q \in {"rejected", "non-compliant", "breach"} :
                          /\ HasPrefix(line, q)
                          /\ (q = "non-compliant") <=> (ret'.err = "nil")
       /\ ComplianceSelfAdapt =>
             IF CountPrefixed(eventLog, {"breach", "rejected"}) > 50
             THEN lastTick' = "evolved" /\ eventLog' = EmptyBag
             ELSE lastTick' = "kept" /\ eventLog' = eventLog]_vars

\* the tick of an ILOComplianceEnforcer has found 51 breaches and reset the
\* log
C32_Witness ==
    /\ program = "ilo"
    /\ lastTick = "evolved"
    /\ eventLog = EmptyBag
    /\ ret.err = "breach: Pi Coin ecosystem must comply with ILO fair labor"

\* C33: a call of a compliance enforcer made while a flag of its table of
\* standards is false (for the global enforcer: the jurisdiction is not one
\* of the table, or userKYC is false) returns false and the error of the
\* standards whatever the model would answer, appends one line that begins
\* "rejected" to the compliance log and starts no Learn.
C33_FlagsRejectFirst ==
    [][\A p \in DOMAIN ComplianceEnforcer :
          \A c \in ComplianceEnforcer[p].calls :
             LET k == ComplianceEnforcer[p]
                 failing ==
                    IF p = "compliance"
                    THEN \/ c.jurisdiction
                               \notin {"IMF", "BIS", "FATF", "FINMA", "SEC"}
                         \/ ~c.kyc
                    ELSE \E f \in DOMAIN k.standards : ~k.standards[f]
             IN  (program = p /\ EnforceCompliance(c) /\ failing) =>
                    /\ ret' = Returned(k.op, FALSE, "", k.rejected)
                    /\ \E line \in {"rejected: " \o c.jurisdiction,
                                    "rejected: non-compliant IOSCO",
                                    "rejected: non-compliant ILO"} :
                          eventLog' = eventLog (+) SetToBag({line})
                    /\ goQueue' = goQueue]_vars

\* the global enforcer has rejected a call without KYC and then one for a
\* jurisdiction that its table does not hold, which the model would have
\* accepted
C33_Witness ==
    /\ program = "compliance"
    /\ BagIn("rejected: SEC", eventLog)
    /\ BagIn("rejected: ESMA", eventLog)
    /\ ret = Returned("EnforcePiCoinRegulatoryCompliance", FALSE, "",
                      "rejected: non-compliant jurisdiction or missing KYC")
    /\ goQueue = <<>>

\* C34: with the model unavailable a call of EnforceILOCompliance never
\* returns true: it returns (false, nil) when tx lacks "fair-labor" or
\* "no-forced" and (false, breach error) otherwise, and starts no Learn.
C34_ILONeverAcceptsOnFallback ==
    [][\A c \in ComplianceEnforcer["ilo"].calls :
          (program = "ilo" /\ c.model = "err" /\ EnforceCompliance(c)) =>
             /\ ~ret'.bool
             /\ ret'.err =
                   IF Contains(c.tx, "fair-labor") /\ Contains(c.tx, "no-forced")
                   THEN ComplianceEnforcer["ilo"].breach
                   ELSE "nil"
             /\ goQueue' = goQueue]_vars

\* with the model unavailable a transaction that names fair-labor,
\* no-forced and ethical has been refused as a breach, after one that the
\* fallback refused
C34_Witness ==
    /\ program = "ilo"
    /\ hammer.model = "err"
    /\ BagIn("breach: Pi Coin fair-labor no-forced ethical", eventLog)
    /\ BagIn("non-compliant: Pi Coin fair-labor ethical", eventLog)
    /\ ret = Returned("EnforceILOCompliance", FALSE, "",
                      "breach: Pi Coin ecosystem must comply with ILO fair labor")
    /\ lastTick = "none"

----------------------------------------------------------------------------
----------------------------------------------------------------------------
\* C36: a step of the ledger keeps every entry it has, with its ID, data
\* and hash, in its place: the entry list before the step is a prefix of
\* the entry list after it.  A call of AddEntry that returns an error, a
\* Learn and a tick of SelfAudit, the one that resets the log included,
\* leave the entry list as it is.
C36_EntriesAppendOnly ==
    [][(program = "ledger") =>
          /\ Len(entries') >= Len(entries)
          /\ SubSeq(entries', 1, Len(entries)) = entries
          /\ (\/ ret'.err # "nil" /\ \E c \in LedgerCalls : AddEntry(c)
              \/ goQueue' # goQueue /\ Len(goQueue') < Len(goQueue)
              \/ lastTick' # lastTick
              \/ eventLog' = EmptyBag)
             => entries' = entries]_vars

\* an entry has been added, eleven entries have been rejected after it,
\* and the tick of SelfAudit has reset the log: the entry is as it was
C36_Witness ==
    /\ program = "ledger"
    /\ lastTick = "evolved"
    /\ eventLog = EmptyBag
    /\ Len(entries) = 1
    /\ entries[1].ID = "entry_1"
    /\ entries[1].Data = "stablecoin tx: USDC 100"
    /\ ret.err = "rejected: volatile data not added to ledger"

----------------------------------------------------------------------------
\* C37: a step of IssueStablecoin that returns an error leaves the pool as
\* it is; one that issues debits the amount from the entry of USDC when the
\* request names USDC, with or without USDT beside it, and from the entry of
\* USDT otherwise, and leaves the other entry as it is.
C37_OnlyExtractedTypeDebited ==
    [][\A c \in IssuanceCalls :
          IssueStablecoin(c) =>
             IF ret'.err # "nil"
             THEN stablecoinPool' = stablecoinPool
             ELSE LET type == IF Contains(c.request, "USDC") THEN "USDC"
                              ELSE "USDT"
                      other == IF type = "USDC" THEN "USDT" ELSE "USDC"
                  IN  /\ stablecoinPool'[type] =
                            stablecoinPool[type] - c.amount
                      /\ stablecoinPool'[other] = stablecoinPool[other]]_vars

\* 250 have been issued for a request that names USDT and then USDC: they
\* have come from the entry of USDC
C37_Witness ==
    /\ program = "issuance"
    /\ ret.op = "IssueStablecoin"
    /\ ret.err = "nil"
    /\ BagIn("Issued 250 USDC", eventLog)
    /\ stablecoinPool = [USDC |-> PoolSeed - 250, USDT |-> PoolSeed]

----------------------------------------------------------------------------
(* AutonomousPiCoinAPI (pi-ecosystem-protocol/src/api/                     *)
(* pi_coin_stablecoin_api.go), run as the program "picoinapi".  eventLog   *)
(* is queryLog, which the resolver never appends to.                       *)

\* the filter of a query: nil, or a PiCoinFilter with origin, recipient and
\* value.  The resolver compares filter.Value with a number, so the field
\* is a number and not a pointer: a filter written without a value holds
\* the zero value of the field.
PiCoinFilters ==
    {[filter |-> FALSE, origin |-> "", recipient |-> "", given |-> FALSE,
      value |-> 0]}
    \cup {[filter |-> TRUE, origin |-> o, recipient |-> r, given |-> TRUE,
           value |-> v] :
             o \in {"mining", "bursa efek", "external wallet"},
             r \in {"USDC", "external bank"},
             v \in {314159, 100}}
    \cup {[filter |-> TRUE, origin |-> "mining", recipient |-> "USDC",
           given |-> FALSE, value |-> 0]}

\* Query_piCoinStablecoinData: optimizePiCoinQuery returns a text that the
\* resolver does not use; Hash is the digest of a constant text
Query_piCoinStablecoinData(c) ==
    /\ program = "picoinapi"
    /\ c = hammer \/ callsLeft > 0
    /\ callsLeft' = IF c = hammer THEN callsLeft ELSE callsLeft - 1
    /\ ret' = IF /\ c.filter
                 /\ \/ Contains(c.origin, "bursa")
                    \/ Contains(c.origin, "external")
                    \/ c.value # 314159
                    \/ Contains(c.recipient, "external")
              THEN Returned("Query_piCoinStablecoinData", FALSE, "",
                     "rejected: only compliant Pi Coin stablecoin queries allowed")
              ELSE Returned("Query_piCoinStablecoinData", TRUE,
                            "Pi Stablecoin 314159 mining USDC", "nil")
    /\ UNCHANGED <<program, gwVars, hammer, eventLog, ruleSet, goQueue,
                   lastTick, storeVars>>

\* SelfTune of the API: the ticker fires, the loop body compares
\* len(apai.queryLog) with 100.  TunePiCoinAPI is log.Println of the rules.
PiCoinAPISelfTune ==
    /\ program = "picoinapi"
    /\ IF BagCardinality(eventLog) > 100
       THEN /\ eventLog' = EmptyBag
            /\ lastTick' = "evolved"
       ELSE /\ UNCHANGED eventLog
            /\ lastTick' = "kept"
    /\ UNCHANGED <<program, gwVars, hammer, callsLeft, ret, ruleSet, goQueue,
                   storeVars>>

\* C38: the resolver rejects a filter exactly when its origin contains
\* "bursa" or "external", its recipient contains "external", or it gives a
\* value other than 314159; every other query, one whose filter gives a
\* compliant origin and recipient and no value among them, is served the
\* fixed record.
C38_RejectsOnlyGivenValues ==
    [][\A c \in PiCoinFilters :
          Query_piCoinStablecoinData(c) =>
             LET rejects ==
                    /\ c.filter
                    /\ \/ Contains(c.origin, "bursa")
                       \/ Contains(c.origin, "external")
                       \/ Contains(c.recipient, "external")
                       \/ c.given /\ c.value # 314159
             IN  IF rejects THEN ret'.err # "nil"
                 ELSE ret' = Returned("Query_piCoinStablecoinData", TRUE,
                                      "Pi Stablecoin 314159 mining USDC",
                                      "nil")]_vars

----------------------------------------------------------------------------
\* C39: at most one execution of monitorPriceAndAdjustSupply is in flight:
\* while one awaits the price or its burn or mint call, no other has
\* started.
C39_OneTickInFlight ==
    (program = "gateway") =>
        Cardinality({i \in DOMAIN ticks : ticks[i].pc # "idle"}) <= 1

----------------------------------------------------------------------------
(* Properties of the self-evolution ticks                                  *)

\* C3 as claimed: a tick that finds exactly threshold + 1 qualifying lines
\* (11 for the ledger, 101 for the autonomous enforcer, 26 for the converter,
\* 16 for the backup) leaves the Rule Set one rule longer and the Event Log
\* empty.
C3_TickAppendsOneRule ==
    [][LET Evolved == Len(ruleSet') = Len(ruleSet) + 1 /\ eventLog' = EmptyBag
       IN  /\ (SelfAudit
                 /\ CountPrefixed(eventLog, {"rejected", "invalid"})
                       = 10 + 1)
              => Evolved
           /\ (SelfHeal /\ BagCardinality(eventLog) = 100 + 1) => Evolved
           /\ (ConverterSelfOptimize
                 /\ CountPrefixed(eventLog, {"failed", "rejected"})
                       = 25 + 1)
              => Evolved
           /\ (SelfRecover
                 /\ CountPrefixed(eventLog, {"rejected", "low priority"})
                       = 15 + 1)
              => Evolved]_vars

----------------------------------------------------------------------------
(* The programs.  func main of a service constructs it, starts its ticker  *)
(* in a goroutine and calls its operation; the callers of the model are a  *)
(* load generator that repeats one call, and others that make up to        *)
(* MaxCalls calls of any kind.                                             *)

Programs ==
    {"gateway", "ledger", "issuance", "enforcer", "converter", "backup",
     "contract", "logger", "api", "tester", "picointester",
     "loadtester", "picoinloadtester", "picoinenforcer",
     "validator", "issuancecallers",
     "graphql", "issuanceoracle", "purger", "governance", "compliance",
     "iosco", "ilo", "picoinapi"}

\* the fields of the program beside the shared variables
NewFields(prog) ==
    CASE prog = "contract" -> NewPiCoinStablecoinContract
      [] prog = "logger" -> NewHyperLogger
      [] prog = "api" -> NewApiLimiter
      [] prog = "issuancecallers" -> NewIssuanceCallers
      [] prog \in DOMAIN OracleContract -> OracleContract[prog].storage
      [] prog = "graphql" ->
           [pc |-> [p \in Resolvers |-> "idle"],
            seen |-> [p \in Resolvers |-> EmptyBag],
            optimized |-> [p \in Resolvers |-> ""]]
      [] OTHER -> <<>>

\* the calls a load generator may repeat
Hammers(prog) ==
    CASE prog = "ledger" ->
           {[data |-> "blockchain entry", model |-> "err"],
            [data |-> "stablecoin tx: USDC 100", model |-> "low"],
            [data |-> "stablecoin tx: USDC 100", model |-> "err"]}
      [] prog = "issuance" ->
           {[request |-> "issue stablecoin USDC 50", model |-> "ok",
             amount |-> 400],
            [request |-> "issue stablecoin 10", model |-> "err",
             amount |-> FallbackMax]}
      [] prog = "enforcer" ->
           {[tx |-> "stablecoin:USDC", model |-> "err"]}
      [] prog = "converter" ->
           {[origin |-> "exchange", target |-> "USDC",
             amount |-> fixedValue, model |-> "err"],
            [origin |-> "mining", target |-> "USDC",
             amount |-> fixedValue, model |-> "err"]}
      [] prog = "backup" ->
           {[data |-> "blockchain tx", model |-> "err", write |-> TRUE],
            [data |-> "stablecoin: USDC 1000", model |-> "high",
             write |-> TRUE]}
      [] prog = "contract" ->
           {[asset |-> "Pi Coin", value |-> fixedPiValue, origin |-> "mining",
             recipient |-> "USDC", user |-> "0xUser"]}
      [] prog = "logger" ->
           {[event |-> "stablecoin issued: USDC 100", model |-> "high",
             write |-> TRUE]}
      [] prog = "api" -> {[caller |-> "10.0.0.1", path |-> "/api/price"]}
      [] prog = "tester" ->
           {[component |-> "blockchain ledger", model |-> "err"]}
      [] prog = "picointester" ->
           {[component |-> "Pi Coin from bursa", model |-> "err"]}
      [] prog = "loadtester" ->
           {[component |-> "stablecoin ledger", load |-> 500,
             model |-> "err", predicted |-> 0]}
      [] prog = "picoinloadtester" ->
           {[component |-> "Pi Coin stablecoin ledger", load |-> 101,
             model |-> "err", predicted |-> 0]}
      [] prog = "picoinenforcer" ->
           {[tx |-> "coin 314159 from rewards", origin |-> "mining",
             recipient |-> "USDC", model |-> "err"]}
      [] prog = "validator" -> {[tx |-> "volatile:crypto", model |-> "err"]}
      [] prog = "graphql" -> {[asset |-> "USDC", model |-> "err"]}
      [] prog = "picoinapi" ->
           {[filter |-> TRUE, origin |-> "mining", recipient |-> "USDC",
             given |-> TRUE, value |-> 314159]}
      [] prog = "compliance" ->
           {[tx |-> "Pi Coin non-compliant", jurisdiction |-> "SEC",
             kyc |-> FALSE, model |-> "err"]}
      [] prog = "iosco" ->
           {[tx |-> "Pi Coin transparent tx", jurisdiction |-> "IOSCO",
             kyc |-> TRUE, model |-> "err"]}
      [] prog = "ilo" ->
           {[tx |-> "Pi Coin fair-labor no-forced ethical",
             jurisdiction |-> "ILO", kyc |-> TRUE, model |-> "err"]}
      [] prog \in DOMAIN OracleContract ->
           {[sender |-> IF prog = "issuanceoracle" THEN "0xOwner"
                        ELSE "0xUser",
             text |-> IF prog = "purger" THEN "volatile coin"
                      ELSE IF prog = "governance" THEN "stablecoin fees"
                      ELSE "USDC",
             party |-> "0xUser"]}
      [] OTHER -> {"none"}

\* the state after dotenv.config() of the gateway, or after the constructor
\* of the service (NewStablecoinLedger, NewStablecoinIssuanceEngine,
\* NewAutonomousEnforcer, NewPiCoinConverter, NewQuantumBackup)
Init ==
    /\ program \in Programs
    /\ env \in (IF program = "gateway" THEN SUBSET requiredEnvVars
                ELSE {requiredEnvVars})
    /\ gwPc = "validate"
    /\ listeners = {}
    /\ timerArmed = FALSE
    /\ ticks = [i \in 1..MaxTicks |-> IdleTick]
    /\ hammer \in Hammers(program)
    /\ callsLeft = MaxCalls
    /\ ret = Returned("none", FALSE, "", "nil")
    /\ eventLog = EmptyBag
    /\ ruleSet = CASE program = "ledger" -> NewLedgerRLAgent
                   [] program \in {"issuance", "issuancecallers"} ->
                        NewIssuanceRLAgent
                   [] program = "enforcer" -> NewReinforcementLearner
                   [] program = "converter" -> NewPiCoinConverterRLAgent
                   [] program = "backup" -> NewBackupRLAgent
                   [] program = "contract" -> NewPiCoinRules
                   [] program = "logger" -> NewLoggerRLAgent
                   [] program = "tester" -> NewTestRLAgent
                   [] program = "picointester" -> NewPiCoinTestRLAgent
                   [] program = "picoinenforcer" -> NewPiCoinRLAgent
                   [] program = "validator" -> NewValidationRLAgent
                   [] program \in DOMAIN OracleContract ->
                        OracleContract[program].rules
                   [] program = "picoinapi" ->
                        <<"optimize Pi Coin queries", "cache stablecoin data">>
                   [] program \in DOMAIN ComplianceEnforcer ->
                        ComplianceEnforcer[program].rules
                   [] program = "graphql" ->
                        <<"optimize queries", "cache stablecoin data">>
                   [] program = "loadtester" -> NewLoadRLAgent
                   [] program = "picoinloadtester" -> NewPiCoinLoadRLAgent
                   [] OTHER -> <<>>
    /\ goQueue = <<>>
    /\ lastTick = "none"
    /\ entries = <<>>
    /\ stablecoinPool = NewPool
    /\ backupFiles = <<>>
    /\ clock = 0
    /\ fields = NewFields(program)

Next ==
    \/ ValidateEnv
    \/ Construct
    \/ ArmTimer
    \/ Listen
    \/ \E i \in 1..MaxTicks : TimerFire(i)
    \/ \E i \in 1..MaxTicks, p \in Prices : PriceResolved(i, p)
    \/ \E i \in 1..MaxTicks : PriceRejected(i)
    \/ \E i \in 1..MaxTicks : SupplyResolved(i)
    \/ \E i \in 1..MaxTicks : SupplyRejected(i)
    \/ \E c \in LedgerCalls : AddEntry(c)
    \/ AdjustLedger
    \/ SelfAudit
    \/ \E c \in IssuanceCalls : IssueStablecoin(c)
    \/ IssuanceLearn
    \/ SelfOptimize
    \/ \E c \in EnforcerCalls : EnforceTransaction(c)
    \/ SelfHeal
    \/ \E c \in ConverterCalls : ConvertPiCoin(c)
    \/ ConverterLearn
    \/ ConverterSelfOptimize
    \/ \E c \in BackupCalls : BackupData(c)
    \/ OptimizeBackup
    \/ SelfRecover
    \/ ClockTick
    \/ \E c \in ContractCalls : EnforcePiCoinStablecoinTx(c)
    \/ \E a \in Addresses, id \in 1..MaxTx, v \in BOOLEAN :
          FulfillPiCoinValidationTx(a, id, v)
    \/ \E a \in Addresses : ReportBreachTx(a)
    \/ NextBlock
    \/ \E c \in LoggerCalls : LogEvent(c)
    \/ AdjustLogging
    \/ SelfMonitor
    \/ SelfMonitorReset
    \/ \E c \in ApiCalls : Request(c)
    \/ WindowEnds
    \/ \E c \in TesterCalls : RunHyperTest(c)
    \/ \E c \in TesterCalls : RunPiCoinHyperTest(c)
    \/ AdjustTests
    \/ SelfImprove
    \/ \E c \in LoadCalls : RunLoadTest(c)
    \/ \E c \in LoadCalls : RunPiCoinLoadTest(c)
    \/ AdjustLoad
    \/ SelfScale
    \/ \E c \in PiCoinEnforcerCalls : EnforcePiCoinStablecoin(c)
    \/ PiCoinLearn
    \/ SelfAdapt
    \/ \E c \in ValidatorCalls : ValidateTransaction(c)
    \/ ValidationLearn
    \/ ValidatorSelfAdapt
    \/ \E p \in IssuanceCallers, c \in ConcurrentCalls : IssueLock(p, c)
    \/ \E p \in IssuanceCallers : IssueCheck(p)
    \/ \E p \in IssuanceCallers : IssueDebit(p)
    \/ \E p \in Resolvers :
          \E c \in {[asset |-> "USDC", model |-> "err"],
                    [asset |-> "volatile asset", model |-> "err"]} :
             Query_stablecoinData(p, c)
    \/ \E p \in Resolvers : Query_stablecoinDataStore(p)
    \/ SelfTune
    \/ SelfTuneReset
    \/ \E p \in DOMAIN ComplianceEnforcer :
          \E c \in ComplianceEnforcer[p].calls :
             program = p /\ EnforceCompliance(c)
    \/ ComplianceLearn
    \/ \E c \in PiCoinFilters : Query_piCoinStablecoinData(c)
    \/ PiCoinAPISelfTune
    \/ ComplianceSelfAdapt
    \/ \E p \in DOMAIN OracleContract :
          \E c \in OracleContract[p].calls : program = p /\ TriggerTx(c)
    \/ \E p \in DOMAIN OracleContract :
          \E sender \in {"0xOracle", "0xUser"}, id \in 1..(MaxTx + 1),
             v \in OracleContract[p].answers :
             program = p /\ FulfillTx(sender, id, v)
    \/ \E sender \in {"0xOwner", "0xUser"} : ReportTx(sender)
    \/ \E sender \in {"0xOwner", "0xUser"},
          issuer \in {"0xUser", "0xOracle"} :
          AddAuthorizedIssuerTx(sender, issuer)

Spec == Init /\ [][Next]_vars

====
